---- MODULE Spec2Model ----
(***************************************************************************)
(* Model of the bank-transaction -> ledger synchronisation engine of       *)
(* ai-cfo-mvp (data_sync_script.py, database_module.py, mock_data.py).     *)
(*                                                                         *)
(* Ten specifications share this module:                                   *)
(*   Spec        the orchestrators sync_plaid_data / sync_quickbooks_data  *)
(*               run one after the other against the local store, the     *)
(*               aggregator and the ledger;                                *)
(*   SpecBatch   the journal-entry batch path                              *)
(*               (build_batch_journal_items, qb_batch_post);               *)
(*   SpecEnsure  ensure_qb_account called by concurrent syncs;             *)
(*   SpecCreate  _qb_safe_create creating one ledger entity while other    *)
(*               ledger clients create entities of their own;              *)
(*   SpecStore   save_transaction called by concurrent syncs;              *)
(*   SpecMap     successive calls of map_plaid_category_to_qb;             *)
(*   SpecSeed    seed_mock_plaid called by concurrent syncs;               *)
(*   SpecNote    the marker the create functions write and query;          *)
(*   SpecProv    the ensure operations called by concurrent syncs;         *)
(*   SpecRace    concurrent runs of sync_plaid_transactions over one       *)
(*               window.                                                   *)
(*                                                                         *)
(* Money amounts are integers in thousandths of a currency unit ("mills"): *)
(* 42.50 is 42500.  External requests (aggregator, ledger) may fail at     *)
(* any call: qb_request raises on every non-2xx answer.                    *)
(***************************************************************************)
EXTENDS Integers, Sequences, FiniteSets, TLC

\* ------------------------------------------------------------------ bounds
\* number of orchestrator invocations in one behaviour of Spec
MaxRuns == 2
\* number of transactions in the aggregator's window
MaxTxn == 2
\* largest number of pending postings handed to the batch path
MaxPending == 73
\* transaction ids that may already have a JournalEntry in the ledger
MaxExisting == 1
\* number of syncs that may call ensure_qb_account or save_transaction
\* concurrently
NumSyncs == 2
\* number of save_transaction calls in one behaviour of SpecStore
MaxStoreCalls == 3
\* number of map_plaid_category_to_qb calls in one behaviour of SpecMap
MaxMapCalls == 3

VARIABLES
    \* ---- Spec: orchestrator position and per-invocation locals
    pc,            \* position inside the running orchestrator, "idle" between runs
    runs,          \* invocations started so far
    lastOp,        \* "none" | "plaid" | "qb": the orchestrator last invoked
    result,        \* "none" | "running" | "true" | "false" | "raised"
    path,          \* branch that produced the result of the last plaid run
    excInTry,      \* an exception was raised inside the try block of this run
    seedFailed,    \* a seed_mock_plaid call of this run raised
    handlerSeeds,  \* seed_mock_plaid calls made by the except handler this run
    logAtStart,    \* Len(sync_log) when the invocation started
    qbSession,     \* ledger tokens in session state: "present" | "absent" | "error"
    accounts_synced,
    transactions_synced,
    txIdx,         \* loop index of sync_plaid_transactions
    \* ---- environment fixed for a behaviour
    window,        \* the aggregator's transaction window: id -> [amount, account_id]
    mockTxCount,   \* transactions seed_mock_plaid generates for this company
    \* ---- persistent stores
    plaidTokens,   \* plaid_tokens row of the company: "absent" | "empty" | "valid"
    dbAccounts,    \* bank_accounts rows, in rowid order
    dbTxns,        \* transactions rows, in rowid order
    dbMockTxns,    \* number of transactions rows inserted by seed_mock_plaid
    dbInvoices,    \* number of invoices rows
    dbBills,       \* number of bills rows
    sync_log,      \* sync_log rows, in insertion order
    qbDocs,        \* ledger documents: kind -> PrivateNote -> number of documents
    fullRuns,      \* sync_plaid_data runs that ended through the full_sync log
    docCalls,      \* transactions this run called qb_create_*_from_txn for
    docAttempts,   \* [txn, kind]: the create function this run called for the transaction
    respForm,      \* the transactions_get response: "object" | "dict"
    docRepaired,   \* transactions given their first document after their row
    docFault,      \* transactions whose ledger step raised in this run
    \* ---- SpecBatch: build_batch_journal_items and qb_batch_post
    bpc,           \* "build" | "post" | "done" | "raised"
    bN,            \* len(txns), the pending postings handed to the builder
    bShift,        \* which shape the first transaction has
    bIdx,          \* loop index of build_batch_journal_items
    bItems,        \* items, the BatchItemRequest list under construction
    bSkipped,      \* transaction ids skipped because their JournalEntry exists
    bSubmitted,    \* batch requests sent, each the bIds of its items
    bExisting,     \* transaction ids whose JournalEntry pre-exists in the ledger
    bJournals,     \* transaction ids whose JournalEntry is in the ledger
    bFault,        \* the request whose failure the batch path raised on, or "none"
    bLookups,      \* per account name: the qb_get_account_by_name queries of this build
    qbAccounts,    \* the ledger's accounts: their names, by Id
    \* ---- SpecEnsure: ensure_qb_account called by concurrent syncs
    ePc,           \* per sync: "idle" | "lookup" | "create" | "returned" | "raised"
    eName,         \* per sync: the account name being ensured
    eAcc,          \* per sync: the account returned
    eCreates,      \* per sync: create requests issued by the call
    eFault,        \* per sync: "none" | "query" | "duplicate" | "other"
    \* ---- SpecCreate: one call of _qb_safe_create against a shared ledger
    cPc,           \* "idle" | "post" | "find" | "final" | "returned" | "raised"
    cRoot,         \* root_key: "Customer" | "Vendor" | "Item"
    cAttempt,      \* the loop variable attempt
    cName,         \* name, as the suffix it carries: 0 is base_name
    cPosted,       \* the suffixes of the names sent in create requests, in order
    cFault,        \* fault of the last create request: "none" | "6240" | "other"
    cRefused,      \* [code, at]: fault code of the last refused create request, at: its number
    cVia,          \* how the call returned: "created" | "found" | "final" | "placeholder"
    cResult,       \* the entity returned
    cEntities,     \* the ledger's Customer / Vendor / Item entities
    \* ---- SpecStore: save_transaction called by concurrent syncs
    sPc,           \* per sync: "idle" | "connected" | "executed"
    sData,         \* per sync: transaction_data of the call in progress
    sLast,         \* per sync: cursor.lastrowid read after execute
    sSeen,         \* per sync: the rows its id had when the INSERT ran
    sRacing,       \* per sync: the syncs connected when its INSERT ran
    sLock,         \* the sync holding the database write lock, or 0
    sCalls,        \* save_transaction calls started
    sReturned,     \* finished calls: [sync, data, ret, seen, racing], in return order
    transactions,  \* the transactions table, in rowid order
    \* ---- SpecMap: successive calls of map_plaid_category_to_qb
    mInputs,       \* the (category, is_income) arguments of the calls, in order
    mReturned,     \* the tuples returned so far, in call order
    \* ---- SpecSeed: seed_mock_plaid called by concurrent syncs
    rng,           \* state of the module-global generator of random
    clock,         \* the day datetime.now() falls on
    bank_accounts, \* the bank_accounts table, in rowid order
    seedPc,        \* per sync: "idle" | "loop" (after random.seed, before line 90) | "done"
    seedCompany,   \* per sync: company_id of the call in progress
    seedRows,      \* per sync: account_rows of the call in progress
    seedAlone,     \* per sync: no other sync has stepped inside seed_mock_plaid since the call began
    seedStored,    \* number of rows seeding has put into the transactions table
    seedReturned,  \* finished calls, in return order
    \* ---- SpecNote: the marker written by a create function and queried by its check
    nDocs,         \* ledger documents [kind, PrivateNote, copy]
    nCalls,        \* per (kind, transaction id): calls of the create function so far
    nFound,        \* (kind, transaction id) whose existence check found a document
    provPc,        \* per sync: "idle" | "lookup" | "acct_lookup" | "acct_create" | "post" | "find" | "final" | "returned" | "raised"
    provKind,      \* per sync: what is ensured, "Customer" | "Vendor" | "Item" | "Account"
    provAttempt,   \* per sync: the loop variable attempt of _qb_safe_create
    provName,      \* per sync: name of _qb_safe_create, as the suffix it carries
    provLooked,    \* per sync: what the first lookup by name returned
    provPosts,     \* per sync: create requests sent by the call
    provFault,     \* per sync: faults the create requests of the call met
    provResult,    \* per sync: the entity returned
    provEntities,  \* the ledger's Customer / Vendor / Item entities
    rcPc,          \* per run: "idle" | "save" | "check" | "post" | "done"
    rcIdx,         \* per run: position in the window
    rcInserted,    \* per run: the local variable inserted
    rcRows,        \* transaction_id of the rows of the transactions table
    rcDocs         \* ledger documents [kind, txn, by]: by is the run that posted it

syncVars == <<pc, runs, lastOp, result, path, excInTry, seedFailed, handlerSeeds,
              logAtStart, qbSession, accounts_synced, transactions_synced, txIdx,
              window, mockTxCount, plaidTokens, dbAccounts, dbTxns, dbMockTxns,
              dbInvoices, dbBills, sync_log, qbDocs, fullRuns, docCalls,
              docAttempts, docFault, respForm, docRepaired>>

\* what sync_plaid_transactions did with the ledger for each transaction
docVars == <<docCalls, docAttempts, docFault, respForm, docRepaired>>

batchLocals == <<bpc, bN, bShift, bIdx, bItems, bSkipped, bSubmitted, bExisting,
                 bJournals, bFault, bLookups>>
batchVars == <<batchLocals, qbAccounts>>

ensureVars == <<ePc, eName, eAcc, eCreates, eFault>>

createVars == <<cPc, cRoot, cAttempt, cName, cPosted, cFault, cRefused, cVia, cResult,
                cEntities>>

storeVars == <<sPc, sData, sLast, sSeen, sRacing, sLock, sCalls, sReturned,
               transactions>>

mapVars == <<mInputs, mReturned>>

seedVars == <<rng, clock, bank_accounts, seedPc, seedCompany, seedRows,
              seedAlone, seedStored, seedReturned>>

noteVars == <<nDocs, nCalls, nFound>>

provVars == <<provPc, provKind, provAttempt, provName, provLooked, provPosts,
             provFault, provResult, provEntities>>

raceVars == <<rcPc, rcIdx, rcInserted, rcRows, rcDocs>>

\* the state each specification leaves alone
nonSyncVars == <<batchVars, ensureVars, createVars, storeVars, mapVars, seedVars, noteVars, provVars, raceVars>>
nonBatchVars == <<syncVars, ensureVars, createVars, storeVars, mapVars, seedVars, noteVars, provVars, raceVars>>
nonEnsureVars == <<syncVars, batchLocals, createVars, storeVars, mapVars, seedVars, noteVars, provVars, raceVars>>
nonCreateVars == <<syncVars, batchVars, ensureVars, storeVars, mapVars, seedVars, noteVars, provVars, raceVars>>
nonStoreVars == <<syncVars, batchVars, ensureVars, createVars, mapVars, seedVars, noteVars, provVars, raceVars>>
nonMapVars == <<syncVars, batchVars, ensureVars, createVars, storeVars, seedVars, noteVars, provVars, raceVars>>
nonSeedVars == <<syncVars, batchVars, ensureVars, createVars, storeVars, mapVars, noteVars, provVars, raceVars>>
nonNoteVars == <<syncVars, batchVars, ensureVars, createVars, storeVars, mapVars, seedVars, provVars, raceVars>>
nonProvVars == <<syncVars, batchLocals, ensureVars, createVars, storeVars, mapVars, seedVars, noteVars, raceVars>>
nonRaceVars == <<syncVars, batchVars, ensureVars, createVars, storeVars, mapVars, seedVars, noteVars, provVars>>

vars == <<syncVars, batchVars, ensureVars, createVars, storeVars, mapVars, seedVars, noteVars, provVars, raceVars>>

\* ------------------------------------------------------------ data domains
TxnIds == 1..MaxTxn
Syncs == 1..NumSyncs
NoRow == [absent |-> TRUE]
DocKinds == {"Invoice", "Bill", "JournalEntry"}

\* accounts the aggregator returns for the company (accounts_get)
PlaidAccounts == {"acct_A"}
\* mock accounts of seed_mock_plaid
MockAccounts == <<"mock_acct_chk", "mock_acct_svg">>

\* shapes of aggregator transactions: vendor sign convention, outflow positive
TxnShapes ==
    { [amount |-> 42500,   account_id |-> "acct_A"],    \* outflow 42.50
      [amount |-> -120000, account_id |-> "acct_A"],    \* inflow 120.00
      [amount |-> 0,       account_id |-> "acct_A"],
      [amount |-> 9990,    account_id |-> "acct_X"] }   \* account never synced

\* the windows the aggregator may return: the shapes in every rotation, so that
\* each shape occurs at each position of the window
ShapeOrder ==
    <<[amount |-> 42500,   account_id |-> "acct_A"],
      [amount |-> -120000, account_id |-> "acct_A"],
      [amount |-> 0,       account_id |-> "acct_A"],
      [amount |-> 9990,    account_id |-> "acct_X"]>>
Windows ==
    {[i \in TxnIds |-> ShapeOrder[((i - 1 + shift) % Len(ShapeOrder)) + 1]] :
        shift \in 0..(Len(ShapeOrder) - 1)}

\* days = 30 in seed_mock_plaid; each day yields 0-2 income and 2-5 expense rows
MockDays == 30
MockTxCounts == {2 * MockDays, 7 * MockDays}

\* the natural-key marker written to and queried in PrivateNote
PrivateNote(txnId) == <<"PLD:", txnId>>
Notes == {PrivateNote(i) : i \in TxnIds}

\* ------------------------------------------------------------- local store
\* DatabaseManager.save_account: INSERT OR REPLACE into bank_accounts, whose only
\* key is the autoincrement id, so every call adds a row
SaveAccount(rows, plaidId) ==
    Append(rows, [id |-> Len(rows) + 1, plaid_account_id |-> plaidId])

\* a lookup that takes the first row of the table, whatever its external id
GetAccountByPlaidIdAnyRow(rows, plaidId) ==
    IF rows = <<>> THEN NoRow ELSE rows[1]

\* DatabaseManager.get_account_by_plaid_id: result.iloc[0] of the matching rows
GetAccountByPlaidId(rows, plaidId) ==
    LET hits == {i \in 1..Len(rows) : rows[i].plaid_account_id = plaidId}
    IN  IF hits = {} THEN NoRow
        ELSE rows[CHOOSE i \in hits : \A j \in hits : i <= j]

\* rows of the transactions table that carry an external transaction id
TxnRows(rows, id) == {i \in 1..Len(rows) : rows[i].plaid_transaction_id = id}

\* a plain INSERT that ignores the UNIQUE plaid_transaction_id
SaveTransactionNoUnique(rows, transaction_data) ==
    Append(rows, [id |-> Len(rows) + 1,
                  plaid_transaction_id |-> transaction_data.transaction_id,
                  data |-> transaction_data])

\* an upsert: the stored row takes the new data
SaveTransactionReplaces(rows, transaction_data) ==
    IF TxnRows(rows, transaction_data.transaction_id) = {}
    THEN SaveTransactionNoUnique(rows, transaction_data)
    ELSE [i \in 1..Len(rows) |->
            IF rows[i].plaid_transaction_id = transaction_data.transaction_id
            THEN [rows[i] EXCEPT !.data = transaction_data] ELSE rows[i]]

\* DatabaseManager.save_transaction: INSERT OR IGNORE on the UNIQUE
\* plaid_transaction_id; the table after the call
SaveTransaction(rows, transaction_data) ==
    IF TxnRows(rows, transaction_data.transaction_id) = {}
    THEN Append(rows, [id |-> Len(rows) + 1,
                       plaid_transaction_id |-> transaction_data.transaction_id,
                       data |-> transaction_data])
    ELSE rows

\* save_transaction 363-370: cursor.lastrowid of the call's own connection,
\* the new rowid after an insert and 0 after an ignored one
SaveTransactionId(rows, transaction_data) ==
    IF TxnRows(rows, transaction_data.transaction_id) = {}
    THEN Len(rows) + 1 ELSE 0

\* DatabaseManager.log_sync: one INSERT into sync_log
LogSync(log, api, kind, n, ok) ==
    Append(log, [api_type |-> api, sync_type |-> kind,
                 records_synced |-> n, success |-> ok])

\* a fallback row that reports the seeding as failed
FallbackLoggedAsFailure(log, seeded) ==
    LogSync(log, "plaid", "mock_seed", seeded.acc_count + seeded.tx_count, FALSE)

\* 407/424/460: the row logged after a successful fallback seeding
FallbackLogged(log, seeded) ==
    LogSync(log, "plaid", "mock_seed", seeded.acc_count + seeded.tx_count, TRUE)

\* seed_mock_plaid: both mock accounts saved, then the generated transactions,
\* each under a fresh uuid4 id; returns (len(accounts), transactions_synced)
SeedAccounts(rows) == SaveAccount(SaveAccount(rows, MockAccounts[1]), MockAccounts[2])
SeedReturn == [acc_count |-> Len(MockAccounts), tx_count |-> mockTxCount]

\* ---------------------------------------------------------------- ledger
\* qb_find_invoice_by_privatenote / qb_find_bill_by_privatenote: the first
\* document of that kind with that note; a failed query is swallowed and
\* reported as "no document"
QbFindByPrivateNote(docs, kind, note, queryFails) ==
    IF queryFails THEN FALSE ELSE docs[kind][note] > 0

\* the ledger after a successful POST of a document
QbPostDoc(docs, kind, note) ==
    [docs EXCEPT ![kind][note] = @ + 1]

\* number of ledger documents, of every kind, bearing the marker of a transaction
DocsBearing(note) ==
    qbDocs["Invoice"][note] + qbDocs["Bill"][note] + qbDocs["JournalEntry"][note]

\* sync_plaid_transactions 601/625: the aggregator's outflow-positive amount
\* is negated at the boundary
StoredAmount(plaidAmount) == 0 - plaidAmount

\* the two create functions exchanged
DocKindForSwapped(storedAmount) == IF storedAmount > 0 THEN "Bill" ELSE "Invoice"
\* sync_plaid_transactions 645 and 654/689: Invoice for income, Bill otherwise
DocKindFor(storedAmount) == IF storedAmount > 0 THEN "Invoice" ELSE "Bill"

\* ------------------------------------------------- sync_plaid_data (Spec)
\* a handler that lets the exception escape to the caller of sync_plaid_data
RaiseInTryPropagates ==
    /\ pc' = "idle"
    /\ excInTry' = TRUE
    /\ result' = "raised"
    /\ UNCHANGED path

\* an exception raised inside the try block of sync_plaid_data is caught by
\* "except Exception as e" (456)
RaiseInTry ==
    /\ pc' = "plaid_except"
    /\ excInTry' = TRUE
    /\ UNCHANGED <<result, path>>

\* return from the orchestrator
Return(res, p) ==
    /\ pc' = "idle"
    /\ result' = res
    /\ path' = p

\* 399-404: DataSyncManager() runs outside the try block; setup_plaid (318-319)
\* raises on a credential found neither in the environment nor in the secrets
StartPlaidSync ==
    /\ pc = "idle"
    /\ runs < MaxRuns
    /\ runs' = runs + 1
    /\ lastOp' = "plaid"
    /\ excInTry' = FALSE
    /\ seedFailed' = FALSE
    /\ handlerSeeds' = 0
    /\ logAtStart' = Len(sync_log)
    /\ accounts_synced' = 0
    /\ transactions_synced' = 0
    /\ txIdx' = 0
    /\ \E s \in {"present", "absent", "error"} : qbSession' = s
    /\ \E manager \in {"client", "noclient", "raises"} :
          CASE manager = "raises" -> Return("raised", "construct")
            [] OTHER -> /\ pc' = IF manager = "client" THEN "plaid_token"
                                                       ELSE "plaid_noclient"
                        /\ result' = "running"
                        /\ path' = "none"
    /\ UNCHANGED <<window, mockTxCount, plaidTokens, dbAccounts, dbTxns,
                   dbMockTxns, dbInvoices, dbBills, sync_log, qbDocs>>
    /\ UNCHANGED fullRuns
    /\ docCalls' = {}
    /\ docAttempts' = {}
    /\ docFault' = {}
    /\ UNCHANGED <<respForm, docRepaired>>
    /\ UNCHANGED nonSyncVars

\* 404-413: no aggregator client; seeding happens outside the try block
PlaidNoClient ==
    /\ pc = "plaid_noclient"
    /\ \E seedOk \in BOOLEAN :
          IF seedOk
          THEN /\ dbAccounts' = SeedAccounts(dbAccounts)
               /\ dbMockTxns' = dbMockTxns + SeedReturn.tx_count
               /\ sync_log' = FallbackLogged(sync_log, SeedReturn)
               /\ Return("true", "noclient")
               /\ UNCHANGED seedFailed
          ELSE /\ seedFailed' = TRUE
               /\ Return("raised", "noclient")
               /\ UNCHANGED <<dbAccounts, dbMockTxns, sync_log>>
    /\ UNCHANGED <<runs, lastOp, excInTry, handlerSeeds, logAtStart, qbSession,
                   accounts_synced, transactions_synced, txIdx, window,
                   mockTxCount, plaidTokens, dbTxns, dbInvoices, dbBills, qbDocs>>
    /\ UNCHANGED fullRuns
    /\ UNCHANGED docVars
    /\ UNCHANGED nonSyncVars

\* DatabaseManager.get_plaid_tokens / set_plaid_tokens are called by
\* get_company_plaid_token but that DatabaseManager does not define among the
\* modelled sources: the stored record is read and written as the plaid_tokens
\* table (database_module.py 140) describes it
GetPlaidTokens == plaidTokens
SetPlaidTokens == "valid"

\* 417 and get_company_plaid_token 939-956: a missing record is replaced by
\* a newly exchanged token (which may fail); a record without access token
\* yields None
PlaidGetToken ==
    /\ pc = "plaid_token"
    /\ \/ /\ GetPlaidTokens = "absent"
          /\ \E exchangeOk \in BOOLEAN :
                IF exchangeOk
                THEN /\ plaidTokens' = SetPlaidTokens
                     /\ pc' = "plaid_accounts"
                     /\ UNCHANGED <<result, path, excInTry>>
                ELSE /\ RaiseInTry
                     /\ UNCHANGED plaidTokens
       \/ /\ GetPlaidTokens = "empty"
          /\ pc' = "plaid_notoken"
          /\ UNCHANGED <<result, path, excInTry, plaidTokens>>
       \/ /\ GetPlaidTokens = "valid"
          /\ pc' = "plaid_accounts"
          /\ UNCHANGED <<result, path, excInTry, plaidTokens>>
    /\ UNCHANGED <<runs, lastOp, seedFailed, handlerSeeds, logAtStart, qbSession,
                   accounts_synced, transactions_synced, txIdx, window,
                   mockTxCount, dbAccounts, dbTxns, dbMockTxns, dbInvoices,
                   dbBills, sync_log, qbDocs>>
    /\ UNCHANGED fullRuns
    /\ UNCHANGED docVars
    /\ UNCHANGED nonSyncVars

\* 419-430: no access token; seeding inside the try block
PlaidNoToken ==
    /\ pc = "plaid_notoken"
    /\ \E seedOk \in BOOLEAN :
          IF seedOk
          THEN /\ dbAccounts' = SeedAccounts(dbAccounts)
               /\ dbMockTxns' = dbMockTxns + SeedReturn.tx_count
               /\ sync_log' = FallbackLogged(sync_log, SeedReturn)
               /\ Return("true", "notoken")
               /\ UNCHANGED <<seedFailed, excInTry>>
          ELSE /\ seedFailed' = TRUE
               /\ RaiseInTry
               /\ UNCHANGED <<dbAccounts, dbMockTxns, sync_log>>
    /\ UNCHANGED <<runs, lastOp, handlerSeeds, logAtStart, qbSession,
                   accounts_synced, transactions_synced, txIdx, window,
                   mockTxCount, plaidTokens, dbTxns, dbInvoices, dbBills, qbDocs>>
    /\ UNCHANGED fullRuns
    /\ UNCHANGED docVars
    /\ UNCHANGED nonSyncVars

\* 435 and sync_plaid_accounts 480-548: accounts_get, then save_account for
\* every account returned
RECURSIVE SaveAll(_, _)
SaveAll(rows, ids) ==
    IF ids = {} THEN rows
    ELSE LET a == CHOOSE x \in ids : TRUE
         IN  SaveAll(SaveAccount(rows, a), ids \ {a})

PlaidSyncAccounts ==
    /\ pc = "plaid_accounts"
    /\ \E fetchOk \in BOOLEAN :
          IF fetchOk
          THEN /\ dbAccounts' = SaveAll(dbAccounts, PlaidAccounts)
               /\ accounts_synced' = Cardinality(PlaidAccounts)
               /\ pc' = "plaid_fetch_txns"
               /\ UNCHANGED <<result, path, excInTry>>
          ELSE /\ RaiseInTry
               /\ UNCHANGED <<dbAccounts, accounts_synced>>
    /\ UNCHANGED <<runs, lastOp, seedFailed, handlerSeeds, logAtStart, qbSession,
                   transactions_synced, txIdx, window, mockTxCount, plaidTokens,
                   dbTxns, dbMockTxns, dbInvoices, dbBills, sync_log, qbDocs>>
    /\ UNCHANGED fullRuns
    /\ UNCHANGED docVars
    /\ UNCHANGED nonSyncVars

\* sync_plaid_transactions 556-576: transactions_get for the 30-day window
PlaidFetchTxns ==
    /\ pc = "plaid_fetch_txns"
    /\ \E fetchOk \in BOOLEAN :
          IF fetchOk
          THEN /\ txIdx' = 1
               /\ transactions_synced' = 0
               /\ pc' = "plaid_loop"
               /\ \E form \in {"object", "dict"} : respForm' = form
               /\ UNCHANGED <<result, path, excInTry>>
          ELSE /\ RaiseInTry
               /\ UNCHANGED <<txIdx, transactions_synced, respForm>>
    /\ UNCHANGED <<runs, lastOp, seedFailed, handlerSeeds, logAtStart, qbSession,
                   accounts_synced, window, mockTxCount, plaidTokens, dbAccounts,
                   dbTxns, dbMockTxns, dbInvoices, dbBills, sync_log, qbDocs>>
    /\ UNCHANGED <<fullRuns, docCalls, docAttempts, docFault, docRepaired>>
    /\ UNCHANGED nonSyncVars

\* sync_plaid_transactions 578-729, one loop iteration: resolve the local
\* account (skip the transaction when there is none), build transaction_data,
\* save the row, count it, then, with ledger tokens, try to create the Invoice
\* or Bill.  queryFails, ensureFails and postFails are the outcomes of the
\* ledger requests made by qb_create_invoice_from_txn / qb_create_bill_from_txn
\* (182-233): the existence query, the ensure_* calls and the final POST.
DocCreated(docs, kind, note, queryFails, ensureFails, postFails) ==
    /\ ~QbFindByPrivateNote(docs, kind, note, queryFails)
    /\ ~ensureFails
    /\ ~postFails

\* qb_create_*_from_txn raises: nothing was found and an ensure_* call or the
\* POST failed (qb_request 67)
DocRaises(docs, kind, note, queryFails, ensureFails, postFails) ==
    /\ ~QbFindByPrivateNote(docs, kind, note, queryFails)
    /\ ensureFails \/ postFails

\* the dict branch storing the aggregator's amount as it came
TransactionDataDictKeepsSign(form, id, transaction, local_account) ==
    IF form = "object"
    THEN [account_id |-> local_account.id, transaction_id |-> id,
          amount |-> StoredAmount(transaction.amount)]
    ELSE [account_id |-> local_account.id, transaction_id |-> id,
          amount |-> transaction.amount]

\* 598-611 (response object) and 622-634 (dict response): transaction_data
TransactionData(form, id, transaction, local_account) ==
    IF form = "object"
    THEN [account_id |-> local_account.id, transaction_id |-> id,
          amount |-> StoredAmount(transaction.amount)]
    ELSE [account_id |-> local_account.id, transaction_id |-> id,
          amount |-> StoredAmount(transaction.amount)]

\* the skip as the commented-out lines would make it: a call that inserted
\* nothing ends the iteration
AlreadyProcessedSkipEnabled(inserted) == inserted = 0

\* 636-641: "inserted" is assigned and the "if not inserted: continue" below
\* it is commented out, so no value of it ends the iteration
AlreadyProcessedSkip(inserted) == FALSE

\* a ledger exception that leaves the loop and reaches the caller's handler
DocFaultEscapes ==
    /\ RaiseInTry
    /\ UNCHANGED txIdx

\* 723-726: "except Exception as e" around the document creation prints the
\* failure; the loop goes on with the next transaction
DocFaultCaught ==
    /\ txIdx' = txIdx + 1
    /\ UNCHANGED <<pc, result, path, excInTry>>

PlaidTxnStep ==
    /\ pc = "plaid_loop"
    /\ txIdx <= MaxTxn
    /\ LET t == window[txIdx]
           local_account == GetAccountByPlaidId(dbAccounts, t.account_id)
           transaction_data == TransactionData(respForm, txIdx, t, local_account)
           inserted == SaveTransactionId(dbTxns, transaction_data)
           kind == DocKindFor(transaction_data.amount)
           note == PrivateNote(txIdx)
       IN  IF local_account = NoRow
           THEN \* 588/619: continue
                /\ txIdx' = txIdx + 1
                /\ UNCHANGED <<pc, result, path, excInTry, dbTxns,
                               transactions_synced, qbDocs, docCalls, docAttempts, docFault>>
           ELSE \E saveOk \in BOOLEAN :
                IF ~saveOk
                THEN \* save_transaction raised (anything but IntegrityError)
                     /\ RaiseInTry
                     /\ UNCHANGED <<txIdx, dbTxns, transactions_synced, qbDocs,
                                    docCalls, docAttempts, docFault>>
                ELSE IF AlreadyProcessedSkip(inserted)
                THEN /\ dbTxns' = SaveTransaction(dbTxns, transaction_data)
                     /\ txIdx' = txIdx + 1
                     /\ UNCHANGED <<pc, result, path, excInTry,
                                    transactions_synced, qbDocs, docCalls, docAttempts, docFault>>
                ELSE /\ dbTxns' = SaveTransaction(dbTxns, transaction_data)
                     /\ transactions_synced' = transactions_synced + 1
                     /\ CASE qbSession = "error" ->
                               \* get_company_qb_tokens raised (648)
                               /\ RaiseInTry
                               /\ UNCHANGED <<txIdx, qbDocs, docCalls, docAttempts, docFault>>
                          [] qbSession = "absent" ->
                               /\ txIdx' = txIdx + 1
                               /\ UNCHANGED <<pc, result, path, excInTry, qbDocs,
                                              docCalls, docAttempts, docFault>>
                          [] qbSession = "present" ->
                               /\ docCalls' = docCalls \cup {txIdx}
                               /\ docAttempts' = docAttempts \cup
                                                   {[txn |-> txIdx, kind |-> kind]}
                               /\ \E queryFails, ensureFails, postFails \in BOOLEAN :
                                     IF DocRaises(qbDocs, kind, note, queryFails,
                                                  ensureFails, postFails)
                                     THEN /\ docFault' = docFault \cup {txIdx}
                                          /\ DocFaultCaught
                                          /\ UNCHANGED qbDocs
                                     ELSE /\ txIdx' = txIdx + 1
                                          /\ UNCHANGED <<pc, result, path, excInTry,
                                                         docFault>>
                                          /\ qbDocs' =
                                               IF DocCreated(qbDocs, kind, note, queryFails,
                                                             ensureFails, postFails)
                                               THEN QbPostDoc(qbDocs, kind, note)
                                               ELSE qbDocs
    /\ UNCHANGED <<runs, lastOp, seedFailed, handlerSeeds, logAtStart, qbSession,
                   accounts_synced, window, mockTxCount, plaidTokens, dbAccounts,
                   dbMockTxns, dbInvoices, dbBills, sync_log>>
    /\ docRepaired' =
          IF /\ qbDocs' # qbDocs
             /\ TxnRows(dbTxns, txIdx) # {}
             /\ DocsBearing(PrivateNote(txIdx)) = 0
          THEN docRepaired \cup {txIdx} ELSE docRepaired
    /\ UNCHANGED <<fullRuns, respForm>>
    /\ UNCHANGED nonSyncVars

\* a full_sync row that counts the accounts alone
FullSyncCountAccountsOnly(accounts, txns) == accounts

\* 447: the count of the full_sync row
FullSyncCount(accounts, txns) == accounts + txns

\* 443-454: the loop is over; log the full sync and return True
PlaidLogFull ==
    /\ pc = "plaid_loop"
    /\ txIdx > MaxTxn
    /\ sync_log' = LogSync(sync_log, "plaid", "full_sync",
                           FullSyncCount(accounts_synced, transactions_synced), TRUE)
    /\ Return("true", "full")
    /\ UNCHANGED <<runs, lastOp, excInTry, seedFailed, handlerSeeds, logAtStart,
                   qbSession, accounts_synced, transactions_synced, txIdx, window,
                   mockTxCount, plaidTokens, dbAccounts, dbTxns, dbMockTxns,
                   dbInvoices, dbBills, qbDocs>>
    /\ fullRuns' = fullRuns + 1
    /\ UNCHANGED docVars
    /\ UNCHANGED nonSyncVars

\* 456-477: the except handler seeds mock data; if that raises too, it logs a
\* failed full_sync row and returns False
PlaidExcept ==
    /\ pc = "plaid_except"
    /\ handlerSeeds' = handlerSeeds + 1
    /\ \E seedOk \in BOOLEAN :
          IF seedOk
          THEN /\ dbAccounts' = SeedAccounts(dbAccounts)
               /\ dbMockTxns' = dbMockTxns + SeedReturn.tx_count
               /\ sync_log' = FallbackLogged(sync_log, SeedReturn)
               /\ Return("true", "except")
               /\ UNCHANGED seedFailed
          ELSE /\ seedFailed' = TRUE
               /\ sync_log' = LogSync(sync_log, "plaid", "full_sync", 0, FALSE)
               /\ Return("false", "except")
               /\ UNCHANGED <<dbAccounts, dbMockTxns>>
    /\ UNCHANGED <<runs, lastOp, excInTry, logAtStart, qbSession,
                   accounts_synced, transactions_synced, txIdx, window,
                   mockTxCount, plaidTokens, dbTxns, dbInvoices, dbBills, qbDocs>>
    /\ UNCHANGED fullRuns
    /\ UNCHANGED docVars
    /\ UNCHANGED nonSyncVars

\* --------------------------------------------- sync_quickbooks_data (Spec)
RECURSIVE SumDocs(_, _)
SumDocs(byNote, notes) ==
    IF notes = {} THEN 0
    ELSE LET n == CHOOSE x \in notes : TRUE
         IN  byNote[n] + SumDocs(byNote, notes \ {n})

\* "select * from Invoice" / "select * from Bill": the documents of a kind
QbCount(docs, kind) == SumDocs(docs[kind], Notes)

\* 895-907: with no ledger tokens the function returns True at once; the
\* fallback seeding and its log row are commented out
StartQbSync ==
    /\ pc = "idle"
    /\ runs < MaxRuns
    /\ runs' = runs + 1
    /\ lastOp' = "qb"
    /\ excInTry' = FALSE
    /\ seedFailed' = FALSE
    /\ handlerSeeds' = 0
    /\ logAtStart' = Len(sync_log)
    /\ accounts_synced' = 0
    /\ transactions_synced' = 0
    /\ txIdx' = 0
    /\ \E s \in {"present", "absent", "error"} :
          /\ qbSession' = s
          /\ CASE s = "present" -> /\ pc' = "qb_sync"
                                   /\ result' = "running"
                                   /\ path' = "none"
               [] s = "absent"  -> Return("true", "qb_notoken")
               [] s = "error"   -> Return("raised", "qb_notoken")
    /\ UNCHANGED <<window, mockTxCount, plaidTokens, dbAccounts, dbTxns,
                   dbMockTxns, dbInvoices, dbBills, sync_log, qbDocs>>
    /\ UNCHANGED fullRuns
    /\ UNCHANGED docVars
    /\ UNCHANGED nonSyncVars

\* 909-927: fetch and save invoices and bills, log the full sync; any
\* exception is caught and the function returns True without seeding or logging
QbSync ==
    /\ pc = "qb_sync"
    /\ \E fetchOk \in BOOLEAN :
          IF fetchOk
          THEN /\ dbInvoices' = dbInvoices + QbCount(qbDocs, "Invoice")
               /\ dbBills' = dbBills + QbCount(qbDocs, "Bill")
               /\ sync_log' = LogSync(sync_log, "quickbooks", "full_sync",
                                      QbCount(qbDocs, "Invoice") + QbCount(qbDocs, "Bill"),
                                      TRUE)
               /\ Return("true", "qb_full")
               /\ UNCHANGED excInTry
          ELSE /\ excInTry' = TRUE
               /\ Return("true", "qb_except")
               /\ UNCHANGED <<dbInvoices, dbBills, sync_log>>
    /\ UNCHANGED <<runs, lastOp, seedFailed, handlerSeeds, logAtStart, qbSession,
                   accounts_synced, transactions_synced, txIdx, window,
                   mockTxCount, plaidTokens, dbAccounts, dbTxns, dbMockTxns, qbDocs>>
    /\ UNCHANGED fullRuns
    /\ UNCHANGED docVars
    /\ UNCHANGED nonSyncVars

\* ------------------------------------------------------------------- Spec
\* the batch path at rest, as the other specifications leave it
BatchIdle ==
    /\ bpc = "done"
    /\ bN = 0
    /\ bShift = 0
    /\ bIdx = 0
    /\ bItems = <<>>
    /\ bSkipped = {}
    /\ bSubmitted = <<>>
    /\ bExisting = {}
    /\ bJournals = {}
    /\ bFault = "none"
    /\ bLookups = <<>>

\* no ensure_qb_account call in progress
EnsureIdle ==
    /\ ePc = [p \in Syncs |-> "idle"]
    /\ eName = [p \in Syncs |-> <<>>]
    /\ eAcc = [p \in Syncs |-> NoRow]
    /\ eCreates = [p \in Syncs |-> 0]
    /\ eFault = [p \in Syncs |-> "none"]

\* no _qb_safe_create call in progress
CreateIdle ==
    /\ cPc = "idle"
    /\ cRoot = "Customer"
    /\ cAttempt = 0
    /\ cName = 0
    /\ cPosted = <<>>
    /\ cFault = "none"
    /\ cRefused = NoRow
    /\ cVia = "none"
    /\ cResult = NoRow
    /\ cEntities = {}

\* no save_transaction call in progress, on an empty transactions table
StoreIdle ==
    /\ sPc = [p \in Syncs |-> "idle"]
    /\ sData = [p \in Syncs |-> NoRow]
    /\ sLast = [p \in Syncs |-> 0]
    /\ sSeen = [p \in Syncs |-> <<>>]
    /\ sRacing = [p \in Syncs |-> {}]
    /\ sLock = 0
    /\ sCalls = 0
    /\ sReturned = <<>>
    /\ transactions = <<>>

\* no map_plaid_category_to_qb call recorded
MapIdle ==
    /\ mInputs = <<>>
    /\ mReturned = <<>>

\* no seed_mock_plaid call in progress, on an empty bank_accounts table
SeedIdle ==
    /\ rng = 0
    /\ clock = 0
    /\ bank_accounts = <<>>
    /\ seedPc = [p \in Syncs |-> "idle"]
    /\ seedCompany = [p \in Syncs |-> 0]
    /\ seedRows = [p \in Syncs |-> <<>>]
    /\ seedAlone = [p \in Syncs |-> TRUE]
    /\ seedStored = 0
    /\ seedReturned = <<>>

\* no document created and no create function called
NoteIdle ==
    /\ nDocs = {}
    /\ nCalls = <<>>
    /\ nFound = {}

\* no ensure operation in progress, on a ledger without entities
ProvIdle ==
    /\ provPc = [p \in Syncs |-> "idle"]
    /\ provKind = [p \in Syncs |-> "Customer"]
    /\ provAttempt = [p \in Syncs |-> 0]
    /\ provName = [p \in Syncs |-> 0]
    /\ provLooked = [p \in Syncs |-> NoRow]
    /\ provPosts = [p \in Syncs |-> 0]
    /\ provFault = [p \in Syncs |-> {}]
    /\ provResult = [p \in Syncs |-> NoRow]
    /\ provEntities = {}

\* no concurrent run in progress, nothing stored or posted
RaceIdle ==
    /\ rcPc = [p \in Syncs |-> "idle"]
    /\ rcIdx = [p \in Syncs |-> 1]
    /\ rcInserted = [p \in Syncs |-> 0]
    /\ rcRows = {}
    /\ rcDocs = {}

Init ==
    /\ pc = "idle"
    /\ runs = 0
    /\ lastOp = "none"
    /\ result = "none"
    /\ path = "none"
    /\ excInTry = FALSE
    /\ seedFailed = FALSE
    /\ handlerSeeds = 0
    /\ logAtStart = 0
    /\ qbSession = "absent"
    /\ accounts_synced = 0
    /\ transactions_synced = 0
    /\ txIdx = 0
    /\ window \in Windows
    /\ mockTxCount \in MockTxCounts
    /\ plaidTokens \in {"absent", "empty", "valid"}
    /\ dbAccounts = <<>>
    /\ dbTxns = <<>>
    /\ dbMockTxns = 0
    /\ dbInvoices = 0
    /\ dbBills = 0
    /\ sync_log = <<>>
    /\ qbDocs = [k \in DocKinds |-> [n \in Notes |-> 0]]
    /\ fullRuns = 0
    /\ docCalls = {}
    /\ docAttempts = {}
    /\ docFault = {}
    /\ respForm = "dict"
    /\ docRepaired = {}
    /\ BatchIdle
    /\ qbAccounts = <<>>
    /\ EnsureIdle
    /\ CreateIdle
    /\ StoreIdle
    /\ MapIdle
    /\ SeedIdle
    /\ NoteIdle
    /\ ProvIdle
    /\ RaceIdle

Next ==
    \/ StartPlaidSync
    \/ PlaidNoClient
    \/ PlaidGetToken
    \/ PlaidNoToken
    \/ PlaidSyncAccounts
    \/ PlaidFetchTxns
    \/ PlaidTxnStep
    \/ PlaidLogFull
    \/ PlaidExcept
    \/ StartQbSync
    \/ QbSync

Spec == Init /\ [][Next]_vars

\* ------------------------------------------------ properties of Spec
\* a run of the named orchestrator has returned (or raised)
Finished(op) == pc = "idle" /\ lastOp = op
RowsThisRun == Len(sync_log) - logAtStart
LastRow == sync_log[Len(sync_log)]

\* C1: after any number of sequential full sync runs over the same window
\* (every run so far went through sync_plaid_transactions to the full_sync
\* log) the ledger holds no two documents bearing the same natural-key marker.
C1_NoDuplicateMarker ==
    (pc = "idle" /\ fullRuns = runs) => \A n \in Notes : DocsBearing(n) <= 1

\* C2: every finished invocation of sync_plaid_data or sync_quickbooks_data,
\* whatever its path, has appended exactly one row to the sync log.
C2_OneLogRowPerInvocation ==
    (pc = "idle" /\ lastOp # "none") => RowsThisRun = 1

C4_QbFallbackPopulatesStore ==
    (Finished("qb") /\ path \in {"qb_notoken", "qb_except"}) =>
        (dbInvoices > 0 /\ dbBills > 0)

CompletedSuccess ==
    /\ result = "true"
    /\ RowsThisRun = 1
    /\ LastRow.sync_type = "full_sync"
    /\ LastRow.success

CompletedDegraded ==
    /\ result = "true"
    /\ RowsThisRun = 1
    /\ LastRow.sync_type = "mock_seed"
    /\ LastRow.success

\* the handler's seeding raised: failed full_sync row, False returned
FailedLogged ==
    /\ result = "false"
    /\ path = "except"
    /\ RowsThisRun = 1
    /\ LastRow.sync_type = "full_sync"
    /\ ~LastRow.success
    /\ LastRow.records_synced = 0

\* the seeding of the no-client branch raised: the exception leaves the function
FailedPropagated ==
    /\ result = "raised"
    /\ RowsThisRun = 0
    /\ \/ path = "construct"
       \/ path = "noclient" /\ seedFailed

Resolvable == {i \in TxnIds : GetAccountByPlaidId(dbAccounts, window[i].account_id) # NoRow}

\* C14: in sync_plaid_transactions a transaction whose row is already in the
\* local store, or whose marker is already on a ledger document, is treated
\* as processed: the iteration for it creates no ledger document.
C14_ExistsInEitherBlocksDoc ==
    [][(/\ pc = "plaid_loop"
        /\ txIdx <= MaxTxn
        /\ \/ TxnRows(dbTxns, txIdx) # {}
           \/ DocsBearing(PrivateNote(txIdx)) > 0)
       => qbDocs' = qbDocs]_vars

\* C15: when the row of a transaction is in the local store and no ledger
\* document bears its marker, an iteration of a later run for it (ledger
\* tokens present) calls the document creation again, adds no local row, and
\* leaves exactly one document with the marker unless a ledger request failed.
C15_LedgerHalfRetried ==
    [][(/\ pc = "plaid_loop"
        /\ txIdx <= MaxTxn
        /\ qbSession = "present"
        /\ TxnRows(dbTxns, txIdx) # {}
        /\ DocsBearing(PrivateNote(txIdx)) = 0
        /\ txIdx' = txIdx + 1)
       => /\ txIdx \in docCalls'
          /\ dbTxns' = dbTxns
          /\ Cardinality(TxnRows(dbTxns', txIdx)) = 1
          /\ (txIdx \notin docFault' =>
                qbDocs'["Invoice"][PrivateNote(txIdx)]
                  + qbDocs'["Bill"][PrivateNote(txIdx)] = 1)]_vars

\* a second run retried the ledger half for transaction 1 and repaired it
C15_Witness ==
    /\ Finished("plaid")
    /\ runs = 2
    /\ fullRuns = 2
    /\ 1 \in docRepaired
    /\ 1 \in docCalls
    /\ 1 \notin docFault
    /\ Cardinality(TxnRows(dbTxns, 1)) = 1
    /\ DocsBearing(PrivateNote(1)) = 1

\* C16: an exception raised while resolving the customer, vendor, item or
\* category account or while creating the document of one transaction ends
\* only that document: the iteration completes with the row saved and counted,
\* the loop goes on, and a run with such a fault and no other exception ends
\* through the full_sync log with every resolvable transaction saved and
\* counted.
C16_DocFaultSkipsOnlyDocument ==
    /\ [][(docFault' \ docFault # {})
            => /\ pc' = "plaid_loop"
               /\ txIdx' = txIdx + 1
               /\ TxnRows(dbTxns', txIdx) # {}
               /\ transactions_synced' = transactions_synced + 1
               /\ excInTry' = excInTry]_vars
    /\ []((Finished("plaid") /\ docFault # {} /\ ~excInTry)
            => /\ path = "full"
               /\ result = "true"
               /\ transactions_synced = Cardinality(Resolvable)
               /\ \A i \in Resolvable : TxnRows(dbTxns, i) # {}
               /\ LastRow.records_synced = accounts_synced + transactions_synced)

\* the document of one transaction failed and a later one was still processed
C16_Witness ==
    /\ Finished("plaid")
    /\ path = "full"
    /\ \E i \in docFault : \E j \in docCalls \ docFault :
          /\ j > i
          /\ TxnRows(dbTxns, j) # {}
          /\ DocsBearing(PrivateNote(j)) = 1

\* C20: every row stored for a transaction fetched from the aggregator holds
\* the negation of the aggregator's amount, whichever form the response had.
C20_StoredAmountNegated ==
    \A i \in 1..Len(dbTxns) :
        dbTxns[i].data.amount + window[dbTxns[i].plaid_transaction_id].amount = 0

\* an outflow of 42.50 fetched in a response object is stored as -42.50
C20_Witness ==
    /\ runs = 1
    /\ respForm = "object"
    /\ \E i \in 1..Len(dbTxns) :
          /\ window[dbTxns[i].plaid_transaction_id].amount = 42500
          /\ dbTxns[i].data.amount = -42500

\* the amounts stored for a transaction id
StoredAmountsOf(id) ==
    {dbTxns[i].data.amount : i \in TxnRows(dbTxns, id)}

\* C25: with ledger tokens present, a transaction stored with an amount > 0
\* leads to a call of the Invoice create function and never of the Bill one,
\* and a transaction stored with an amount < 0 to a call of the Bill create
\* function and never of the Invoice one.
C25_DocKindBySign ==
    /\ \A a \in docAttempts :
          \A amount \in StoredAmountsOf(a.txn) :
             /\ amount > 0 => a.kind = "Invoice"
             /\ amount < 0 => a.kind = "Bill"
    /\ \A i \in docCalls : \E a \in docAttempts : a.txn = i
    /\ \A a \in docAttempts : a.txn \in docCalls /\ StoredAmountsOf(a.txn) # {}

\* one run called the Invoice create function for the inflow of 120.00 and
\* the Bill create function for the outflow of 42.50
C25_Witness ==
    /\ qbSession = "present"
    /\ \E a, b \in docAttempts :
          /\ a.kind = "Invoice"
          /\ StoredAmountsOf(a.txn) = {120000}
          /\ b.kind = "Bill"
          /\ StoredAmountsOf(b.txn) = {-42500}

\* C32: after any sequence of account syncs and fallback seedings of the
\* company, bank_accounts holds at most one row per external account id.
C32_OneRowPerAccount ==
    \A i, j \in 1..Len(dbAccounts) :
        dbAccounts[i].plaid_account_id = dbAccounts[j].plaid_account_id => i = j

\* a finished sync_plaid_data run in which both fetches succeeded
BothFetched == Finished("plaid") /\ txIdx >= 1
\* a finished sync_plaid_data run that called seed_mock_plaid
FallbackUsed ==
    Finished("plaid") /\ path \in {"noclient", "notoken", "except"}
\* transactions of the window whose account has a row in the local store
WithLocalAccount ==
    {i \in TxnIds : \E k \in 1..Len(dbAccounts) :
                        dbAccounts[k].plaid_account_id = window[i].account_id}
\* the one row of the run: full_sync, success, accounts + transactions with
\* a local account
FullSyncRow ==
    /\ RowsThisRun = 1
    /\ LastRow = [api_type |-> "plaid", sync_type |-> "full_sync",
                  records_synced |-> Cardinality(PlaidAccounts)
                                       + Cardinality(WithLocalAccount),
                  success |-> TRUE]
\* the one row of the run: mock_seed, seeded accounts + inserted transactions
MockSeedRow ==
    /\ RowsThisRun = 1
    /\ LastRow = [api_type |-> "plaid", sync_type |-> "mock_seed",
                  records_synced |-> Len(MockAccounts) + mockTxCount,
                  success |-> TRUE]

Handled == {i \in TxnIds : i < txIdx}

\* C35: a fetched transaction whose account has no row in the local store is
\* skipped: no transactions row is saved for it, it is not counted in
\* transactions_synced, and no ledger document is attempted or exists for it;
\* the other transactions handled so far are saved and counted.
C35_NoLocalAccountSkipped ==
    /\ \A i \in TxnIds \ WithLocalAccount :
          /\ TxnRows(dbTxns, i) = {}
          /\ i \notin docCalls
          /\ DocsBearing(PrivateNote(i)) = 0
    /\ pc = "plaid_loop" =>
          /\ transactions_synced = Cardinality(Handled \cap WithLocalAccount)
          /\ \A i \in Handled \cap WithLocalAccount : TxnRows(dbTxns, i) # {}

\* a full sync has ended over a window whose first transaction belongs to an
\* account never synced: it was skipped, the transaction after it was saved,
\* counted and given its ledger document
C35_Witness ==
    /\ Finished("plaid")
    /\ path = "full"
    /\ 1 \notin WithLocalAccount
    /\ 2 \in WithLocalAccount
    /\ TxnRows(dbTxns, 1) = {}
    /\ TxnRows(dbTxns, 2) # {}
    /\ transactions_synced = Cardinality(WithLocalAccount)
    /\ docCalls = WithLocalAccount
    /\ DocsBearing(PrivateNote(2)) = 1

\* ======================================================= the batch path
\* the ceiling of one batch request: "if len(items) >= 30: break"
BatchCapacity == 30

\* str.lower() on the letters that occur; other characters are unchanged
UpperToLower == "A" :> "a" @@ "B" :> "b" @@ "C" :> "c" @@ "D" :> "d" @@ "E" :> "e" @@ "F" :> "f" @@ "G" :> "g" @@ "H" :> "h" @@ "I" :> "i" @@ "J" :> "j" @@ "K" :> "k" @@ "L" :> "l" @@ "M" :> "m" @@ "N" :> "n" @@ "O" :> "o" @@ "P" :> "p" @@ "Q" :> "q" @@ "R" :> "r" @@ "S" :> "s" @@ "T" :> "t" @@ "U" :> "u" @@ "V" :> "v" @@ "W" :> "w" @@ "X" :> "x" @@ "Y" :> "y" @@ "Z" :> "z"
LowerChar(c) == IF c \in DOMAIN UpperToLower THEN UpperToLower[c] ELSE c
Lower(str) == [i \in 1..Len(str) |-> LowerChar(str[i])]

\* "key in cat": key occurs as a contiguous substring of cat
Contains(cat, key) ==
    \E off \in 0..(Len(cat) - Len(key)) :
        \A i \in 1..Len(key) : cat[off + i] = key[i]

\* the keyword table of map_plaid_category_to_qb, in insertion order
CategoryMapping ==
    <<
       [key |-> <<"a", "d", "v", "e", "r", "t", "i", "s", "i", "n", "g">>,
        val |-> [name |-> <<"Advertising">>, type |-> "Expense", subtype |-> "Advertising"]],
       [key |-> <<"m", "a", "r", "k", "e", "t", "i", "n", "g">>,
        val |-> [name |-> <<"Advertising">>, type |-> "Expense", subtype |-> "Advertising"]],
       [key |-> <<"t", "r", "a", "v", "e", "l">>,
        val |-> [name |-> <<"Travel">>, type |-> "Expense", subtype |-> "Travel"]],
       [key |-> <<"r", "e", "s", "t", "a", "u", "r", "a", "n", "t">>,
        val |-> [name |-> <<"Meals and Entertainment">>, type |-> "Expense", subtype |-> "MealsAndEntertainment"]],
       [key |-> <<"s", "o", "f", "t", "w", "a", "r", "e">>,
        val |-> [name |-> <<"Software Subscriptions">>, type |-> "Expense", subtype |-> "OfficeSupplies"]],
       [key |-> <<"u", "t", "i", "l", "i", "t", "i", "e", "s">>,
        val |-> [name |-> <<"Utilities">>, type |-> "Expense", subtype |-> "Utilities"]],
       [key |-> <<"r", "e", "n", "t">>,
        val |-> [name |-> <<"Rent or Lease">>, type |-> "Expense", subtype |-> "RentOrLeaseOfBuildings"]],
       [key |-> <<"o", "f", "f", "i", "c", "e">>,
        val |-> [name |-> <<"Office Supplies">>, type |-> "Expense", subtype |-> "OfficeSupplies"]],
       [key |-> <<"i", "n", "s", "u", "r", "a", "n", "c", "e">>,
        val |-> [name |-> <<"Insurance">>, type |-> "Expense", subtype |-> "Insurance"]],
       [key |-> <<"f", "e", "e">>,
        val |-> [name |-> <<"Bank Charges">>, type |-> "Expense", subtype |-> "BankCharges"]],
       [key |-> <<"s", "e", "r", "v", "i", "c", "e">>,
        val |-> [name |-> <<"Legal & Professional Fees">>, type |-> "Expense", subtype |-> "LegalProfessionalFees"]]
    >>

\* a category of None
NoCategory == <<"None">>
\* 285: (category or "")
CategoryOrEmpty(category) == IF category = NoCategory THEN <<>> ELSE category

\* a mapper in which the last keyword of the table that occurs wins
MapPlaidCategoryToQbLastMatch(category, is_income) ==
    IF is_income
    THEN [name |-> <<"Sales">>, type |-> "Income", subtype |-> "SalesOfProductIncome"]
    ELSE LET cat == Lower(CategoryOrEmpty(category))
             hits == {k \in 1..Len(CategoryMapping) : Contains(cat, CategoryMapping[k].key)}
         IN  IF hits = {}
             THEN [name |-> <<"Uncategorized Expense">>, type |-> "Expense",
                   subtype |-> "UncategorizedExpense"]
             ELSE CategoryMapping[CHOOSE k \in hits : \A j \in hits : k >= j].val

\* a mapper that, when no keyword occurs, answers with the account of the
\* call before
MapPlaidCategoryToQbRemembers(category, is_income) ==
    IF is_income
    THEN [name |-> <<"Sales">>, type |-> "Income", subtype |-> "SalesOfProductIncome"]
    ELSE LET cat == Lower(CategoryOrEmpty(category))
             hits == {k \in 1..Len(CategoryMapping) : Contains(cat, CategoryMapping[k].key)}
         IN  IF hits = {}
             THEN IF mReturned # <<>> THEN mReturned[Len(mReturned)]
                  ELSE [name |-> <<"Uncategorized Expense">>, type |-> "Expense",
                        subtype |-> "UncategorizedExpense"]
             ELSE CategoryMapping[CHOOSE k \in hits : \A j \in hits : k <= j].val

\* map_plaid_category_to_qb: strings are sequences of characters, account
\* names one-word sequences
MapPlaidCategoryToQb(category, is_income) ==
    IF is_income
    THEN [name |-> <<"Sales">>, type |-> "Income", subtype |-> "SalesOfProductIncome"]
    ELSE LET cat == Lower(CategoryOrEmpty(category))
             hits == {k \in 1..Len(CategoryMapping) : Contains(cat, CategoryMapping[k].key)}
         IN  IF hits = {}
             THEN [name |-> <<"Uncategorized Expense">>, type |-> "Expense",
                   subtype |-> "UncategorizedExpense"]
             ELSE CategoryMapping[CHOOSE k \in hits : \A j \in hits : k <= j].val

\* round(abs(float(amount)), 2) on mills: to the nearest cent, an exact tie
\* (x.xx5 as the float holds it, e.g. 0.125, 0.375) going to the even cent
Abs(x) == IF x < 0 THEN 0 - x ELSE x
Round2(m) ==
    LET q == m \div 10
        r == m % 10
    IN  10 * (IF r > 5 \/ (r = 5 /\ q % 2 = 1) THEN q + 1 ELSE q)

\* a journal whose credit line carries the unrounded amount
BuildLinesCreditUnrounded(amount, debit_acc, credit_acc, desc) ==
    << [Description |-> desc, Amount |-> Round2(Abs(amount)),
        DetailType |-> "JournalEntryLineDetail",
        JournalEntryLineDetail |->
            [PostingType |-> "Debit",
             AccountRef |-> [value |-> debit_acc.Id, name |-> debit_acc.Name]]],
       [Description |-> desc, Amount |-> Abs(amount),
        DetailType |-> "JournalEntryLineDetail",
        JournalEntryLineDetail |->
            [PostingType |-> "Credit",
             AccountRef |-> [value |-> credit_acc.Id, name |-> credit_acc.Name]]] >>

\* build_qb_journal_entry_lines
BuildQbJournalEntryLines(amount, debit_acc, credit_acc, desc) ==
    LET amt == Round2(Abs(amount))
    IN  << [Description |-> desc, Amount |-> amt,
            DetailType |-> "JournalEntryLineDetail",
            JournalEntryLineDetail |->
                [PostingType |-> "Debit",
                 AccountRef |-> [value |-> debit_acc.Id, name |-> debit_acc.Name]]],
           [Description |-> desc, Amount |-> amt,
            DetailType |-> "JournalEntryLineDetail",
            JournalEntryLineDetail |->
                [PostingType |-> "Credit",
                 AccountRef |-> [value |-> credit_acc.Id, name |-> credit_acc.Name]]] >>

\* the shapes of pending transactions, amounts as stored (negative = outflow);
\* account_id is the local bank_accounts id
BatchShapes ==
    <<
       [amount |-> -42500, category |-> <<"T", "r", "a", "v", "e", "l">>, account_id |-> 1, merchant_name |-> <<"Uber">>],
       [amount |-> 120000, category |-> <<"S", "e", "r", "v", "i", "c", "e", "s">>, account_id |-> 1, merchant_name |-> <<"Client Payment">>],
       [amount |-> 0, category |-> <<>>, account_id |-> 2, merchant_name |-> <<>>],
       [amount |-> -125, category |-> <<"O", "f", "f", "i", "c", "e", " ", "R", "e", "n", "t">>, account_id |-> 1, merchant_name |-> <<"Landlord">>],
       [amount |-> 375, category |-> <<"S", "o", "f", "t", "w", "a", "r", "e">>, account_id |-> 9, merchant_name |-> <<"Refund">>],
       [amount |-> -1004, category |-> <<"S", "h", "o", "p", "s", ",", "R", "e", "s", "t", "a", "u", "r", "a", "n", "t", "s">>, account_id |-> 2, merchant_name |-> <<>>],
       [amount |-> -1006, category |-> <<"F", "o", "o", "d", " ", "a", "n", "d", " ", "D", "r", "i", "n", "k">>, account_id |-> 1, merchant_name |-> <<"Cafe">>]
    >>

\* txns[i - 1]: transaction ids follow the list order, shapes rotate from bShift
BatchTxn(i) ==
    LET sh == BatchShapes[((i + bShift) % Len(BatchShapes)) + 1]
    IN  [transaction_id |-> i, amount |-> sh.amount, category |-> sh.category,
         account_id |-> sh.account_id, merchant_name |-> sh.merchant_name]

\* local_accounts_by_id
LocalAccountsById ==
    (1 :> [name |-> "Operating Checking", mask |-> "1234"]) @@
    (2 :> [name |-> "Reserve Savings", mask |-> ""])

\* f"({mask})" for the masks that occur
MaskBit(mask) == IF mask = "1234" THEN "(1234)" ELSE "(?)"

\* 806-810: bank_name_bits, kept as the sequence " ".join receives
BankNameBits(account_id) ==
    IF account_id \in DOMAIN LocalAccountsById
    THEN LET a == LocalAccountsById[account_id]
         IN  IF a.mask # "" THEN <<a.name, MaskBit(a.mask)>> ELSE <<a.name>>
    ELSE <<"Bank">>

\* qb_get_account_by_name on the accounts of the ledger (Id = position)
QbGetAccountByName(accounts, name) ==
    LET hits == {i \in 1..Len(accounts) : accounts[i] = name}
    IN  IF hits = {} THEN NoRow
        ELSE LET i == CHOOSE k \in hits : \A j \in hits : k <= j
             IN  [Id |-> i, Name |-> accounts[i]]

\* ensure_qb_account when its requests succeed: the ledger after the call
EnsureAccounts(accounts, name) ==
    IF QbGetAccountByName(accounts, name) # NoRow THEN accounts
    ELSE Append(accounts, name)

\* qb_find_journal_by_privatenote
QbFindJournalByPrivateNote(journals, txnId) == txnId \in journals

\* sides with debit and credit exchanged
JournalSidesSwapped(is_income, bank_acc, cat_acc) ==
    IF is_income THEN [debit |-> cat_acc, credit |-> bank_acc]
    ELSE [debit |-> bank_acc, credit |-> cat_acc]

\* 819-822: debit and credit sides
JournalSides(is_income, bank_acc, cat_acc) ==
    IF is_income THEN [debit |-> bank_acc, credit |-> cat_acc]
    ELSE [debit |-> cat_acc, credit |-> bank_acc]

\* a builder that lets one item too many in
ItemsFullOffByOne(items) == Len(items) > BatchCapacity

\* 799: the loop stops once the list holds 30 items
ItemsFull(items) == Len(items) >= BatchCapacity

\* -------------------------------------------------- SpecBatch: actions
\* 271: ensure_qb_account sends one qb_get_account_by_name query for the name;
\* lookups maps each name queried so far to the number of its queries
Looked(lookups, name) ==
    IF name \in DOMAIN lookups
    THEN [lookups EXCEPT ![name] = @ + 1]
    ELSE lookups @@ (name :> 1)

\* the BatchItemRequest built for one transaction (801-841), given the ledger
\* accounts after both ensure_qb_account calls
BatchItem(t, accounts) ==
    LET privatenote == PrivateNote(t.transaction_id)
        bank_acc == QbGetAccountByName(accounts, BankNameBits(t.account_id))
        is_income == t.amount > 0
        mapped == MapPlaidCategoryToQb(t.category, is_income)
        cat_acc == QbGetAccountByName(accounts, mapped.name)
        sides == JournalSides(is_income, bank_acc, cat_acc)
        desc == IF t.merchant_name # <<>> THEN t.merchant_name ELSE privatenote
    IN  [bId |-> privatenote,
         operation |-> "create",
         JournalEntry |->
            [PrivateNote |-> privatenote,
             Line |-> BuildQbJournalEntryLines(t.amount, sides.debit,
                                               sides.credit, desc)]]

\* one iteration of the loop of build_batch_journal_items (798-841).  fault
\* names the ledger request that fails, if any: the JournalEntry query, a
\* request of the bank-account ensure, or one of the category-account ensure;
\* none of them is caught, so the builder raises
BuildStep ==
    /\ bpc = "build"
    /\ bIdx <= bN
    /\ ~ItemsFull(bItems)
    /\ LET t == BatchTxn(bIdx)
           bankName == BankNameBits(t.account_id)
           catName == MapPlaidCategoryToQb(t.category, t.amount > 0).name
           withBank == EnsureAccounts(qbAccounts, bankName)
           withBoth == EnsureAccounts(withBank, catName)
       IN  \E fault \in {"none", "query", "bank", "category"} :
             CASE fault = "query" ->
                    /\ bpc' = "raised"
                    /\ bFault' = fault
                    /\ UNCHANGED <<bIdx, bItems, bSkipped, qbAccounts, bLookups>>
               [] fault # "query" /\ QbFindJournalByPrivateNote(bJournals, t.transaction_id) ->
                    /\ fault = "none"
                    /\ bSkipped' = bSkipped \cup {t.transaction_id}
                    /\ bIdx' = bIdx + 1
                    /\ UNCHANGED <<bpc, bItems, qbAccounts, bFault, bLookups>>
               [] fault = "bank" /\ ~QbFindJournalByPrivateNote(bJournals, t.transaction_id) ->
                    /\ bpc' = "raised"
                    /\ bFault' = fault
                    /\ bLookups' = Looked(bLookups, bankName)
                    /\ UNCHANGED <<bIdx, bItems, bSkipped, qbAccounts>>
               [] fault = "category" /\ ~QbFindJournalByPrivateNote(bJournals, t.transaction_id) ->
                    /\ bpc' = "raised"
                    /\ bFault' = fault
                    /\ qbAccounts' = withBank
                    /\ bLookups' = Looked(Looked(bLookups, bankName), catName)
                    /\ UNCHANGED <<bIdx, bItems, bSkipped>>
               [] fault = "none" /\ ~QbFindJournalByPrivateNote(bJournals, t.transaction_id) ->
                    /\ qbAccounts' = withBoth
                    /\ bItems' = Append(bItems, BatchItem(t, withBoth))
                    /\ bLookups' = Looked(Looked(bLookups, bankName), catName)
                    /\ bIdx' = bIdx + 1
                    /\ UNCHANGED <<bpc, bSkipped, bFault>>
    /\ UNCHANGED <<bN, bShift, bSubmitted, bExisting, bJournals>>
    /\ UNCHANGED nonBatchVars

\* 799-800 and 842: the list is exhausted or full; items is returned
BuildReturn ==
    /\ bpc = "build"
    /\ (bIdx > bN \/ ItemsFull(bItems))
    /\ bpc' = "post"
    /\ UNCHANGED <<bN, bShift, bIdx, bItems, bSkipped, bSubmitted, bExisting,
                   bJournals, qbAccounts, bFault, bLookups>>
    /\ UNCHANGED nonBatchVars

\* qb_batch_post on the list returned by build_batch_journal_items: one
\* request carrying all of it; the ledger creates the JournalEntry of each item
BatchPost ==
    /\ bpc = "post"
    /\ \E postOk \in BOOLEAN :
          IF postOk
          THEN /\ bSubmitted' = Append(bSubmitted,
                                       [k \in 1..Len(bItems) |-> bItems[k].bId])
               /\ bJournals' = bJournals \cup {bItems[k].bId[2] : k \in 1..Len(bItems)}
               /\ bpc' = "done"
               /\ UNCHANGED bFault
          ELSE /\ bpc' = "raised"
               /\ bFault' = "post"
               /\ UNCHANGED <<bSubmitted, bJournals>>
    /\ UNCHANGED <<bN, bShift, bIdx, bItems, bSkipped, bExisting, qbAccounts,
                   bLookups>>
    /\ UNCHANGED nonBatchVars

\* the orchestrators at rest, as SpecBatch leaves them
SyncIdle ==
    /\ pc = "idle"
    /\ runs = 0
    /\ lastOp = "none"
    /\ result = "none"
    /\ path = "none"
    /\ excInTry = FALSE
    /\ seedFailed = FALSE
    /\ handlerSeeds = 0
    /\ logAtStart = 0
    /\ qbSession = "absent"
    /\ accounts_synced = 0
    /\ transactions_synced = 0
    /\ txIdx = 0
    /\ window = [i \in TxnIds |-> CHOOSE sh \in TxnShapes : sh.amount = 0]
    /\ mockTxCount = 2 * MockDays
    /\ plaidTokens = "absent"
    /\ dbAccounts = <<>>
    /\ dbTxns = <<>>
    /\ dbMockTxns = 0
    /\ dbInvoices = 0
    /\ dbBills = 0
    /\ sync_log = <<>>
    /\ qbDocs = [k \in DocKinds |-> [n \in Notes |-> 0]]
    /\ fullRuns = 0
    /\ docCalls = {}
    /\ docAttempts = {}
    /\ docFault = {}
    /\ respForm = "dict"
    /\ docRepaired = {}

\* lengths of the transaction list: empty, short, around the capacity, and
\* the largest
BatchSizes ==
    {0, 1, 2, BatchCapacity - 1, BatchCapacity, BatchCapacity + 1, MaxPending}

BatchInit ==
    /\ SyncIdle
    /\ bpc = "build"
    /\ bN \in BatchSizes
    /\ bShift \in 0..(Len(BatchShapes) - 1)
    /\ bIdx = 1
    /\ bItems = <<>>
    /\ bSkipped = {}
    /\ bSubmitted = <<>>
    /\ bExisting \in SUBSET (1..MaxExisting)
    /\ bJournals = bExisting
    /\ bFault = "none"
    /\ bLookups = <<>>
    /\ qbAccounts \in {<<>>, << <<"Travel">> >>}
    /\ EnsureIdle
    /\ CreateIdle
    /\ StoreIdle
    /\ MapIdle
    /\ SeedIdle
    /\ NoteIdle
    /\ ProvIdle
    /\ RaceIdle

BatchNext ==
    \/ BuildStep
    \/ BuildReturn
    \/ BatchPost

SpecBatch == BatchInit /\ [][BatchNext]_vars

\* --------------------------------------------- properties of SpecBatch
RECURSIVE SumAmounts(_, _, _)
\* the sum of the Amount of the lines k..Len(lines) with the posting type
SumAmounts(lines, postingType, k) ==
    IF k > Len(lines) THEN 0
    ELSE (IF lines[k].JournalEntryLineDetail.PostingType = postingType
          THEN lines[k].Amount ELSE 0)
         + SumAmounts(lines, postingType, k + 1)

\* the transaction an item was built from, through the marker in its bId
ItemTxn(item) == BatchTxn(item.bId[2])
\* the line of an item's JournalEntry with the posting type
ItemLine(item, postingType) ==
    LET ls == item.JournalEntry.Line
    IN  ls[CHOOSE k \in 1..Len(ls) :
              ls[k].JournalEntryLineDetail.PostingType = postingType]

\* C22: within one build, a ledger account name resolved more than once is
\* looked up in the ledger at most once; later resolutions are served from a
\* cache.
C22_OneLookupPerName ==
    \A name \in DOMAIN bLookups : bLookups[name] <= 1

\* C23: a transport failure of one batch submission is an error of that chunk
\* only: the batch path is not aborted by it and goes on to the postings that
\* are left.
C23_ChunkFailureIsolated ==
    bFault = "post" => bpc # "raised"

\* C17: in build_batch_journal_items a failure to resolve the bank account or
\* the category account of one transaction skips that transaction only: the
\* build is not aborted and goes on with the other transactions.
C17_AccountFaultSkipsTxn ==
    bFault \in {"bank", "category"} => bpc \in {"build", "post", "done"}

\* C6: in every journal entry built, the debit amounts and the credit amounts
\* both sum to round(abs(transaction amount), 2), whatever the amount's sign.
C6_JournalBalanced ==
    \A k \in 1..Len(bItems) :
        LET lines == bItems[k].JournalEntry.Line
            expected == Round2(Abs(ItemTxn(bItems[k]).amount))
        IN  /\ SumAmounts(lines, "Debit", 1) = expected
            /\ SumAmounts(lines, "Credit", 1) = expected

\* entries for a positive, a negative, a zero and a rounded amount were built
C6_Witness ==
    /\ \E k \in 1..Len(bItems) : ItemTxn(bItems[k]).amount > 0
    /\ \E k \in 1..Len(bItems) : ItemTxn(bItems[k]).amount < 0
    /\ \E k \in 1..Len(bItems) : ItemTxn(bItems[k]).amount = 0
    /\ \E k \in 1..Len(bItems) :
          /\ ItemTxn(bItems[k]).amount % 10 # 0
          /\ ItemLine(bItems[k], "Debit").Amount # Abs(ItemTxn(bItems[k]).amount)

\* the ledger accounts a transaction's entry must reference
BankAccountOf(t) == QbGetAccountByName(qbAccounts, BankNameBits(t.account_id))
CategoryAccountOf(t) ==
    QbGetAccountByName(qbAccounts, MapPlaidCategoryToQb(t.category, t.amount > 0).name)
RefersTo(line, acc) ==
    /\ acc # NoRow
    /\ line.JournalEntryLineDetail.AccountRef.value = acc.Id
    /\ line.JournalEntryLineDetail.AccountRef.name = acc.Name

\* C7: in every journal entry built, an amount > 0 debits the bank account
\* and credits the category account; an amount < 0 debits the category
\* account and credits the bank account.
C7_SignRule ==
    \A k \in 1..Len(bItems) :
        LET t == ItemTxn(bItems[k])
            debit == ItemLine(bItems[k], "Debit")
            credit == ItemLine(bItems[k], "Credit")
        IN  /\ t.amount > 0 => /\ RefersTo(debit, BankAccountOf(t))
                               /\ RefersTo(credit, CategoryAccountOf(t))
            /\ t.amount < 0 => /\ RefersTo(debit, CategoryAccountOf(t))
                               /\ RefersTo(credit, BankAccountOf(t))

\* entries for an inflow and for an outflow were built
C7_Witness ==
    /\ \E k \in 1..Len(bItems) : ItemTxn(bItems[k]).amount > 0
    /\ \E k \in 1..Len(bItems) : ItemTxn(bItems[k]).amount < 0

\* the pending postings: transactions with no JournalEntry in the ledger yet
Pending == (1..bN) \ bExisting
ChunkSizes == [k \in 1..Len(bSubmitted) |-> Len(bSubmitted[k])]
SubmittedIn(txnId) ==
    {k \in 1..Len(bSubmitted) :
        \E j \in 1..Len(bSubmitted[k]) : bSubmitted[k][j] = PrivateNote(txnId)}

\* C8: when the batch path has finished, every pending posting was submitted
\* in exactly one chunk, every chunk but the last is filled to the capacity,
\* and 73 pending postings went out as three chunks of 30, 30 and 13.
C8_BatchChunking ==
    bpc = "done" =>
        /\ \A i \in Pending : Cardinality(SubmittedIn(i)) = 1
        /\ \A k \in 1..(Len(bSubmitted) - 1) : ChunkSizes[k] = BatchCapacity
        /\ Cardinality(Pending) = 73 => ChunkSizes = <<30, 30, 13>>

\* C9: the list build_batch_journal_items holds or returns, and so every batch
\* request sent, never has more than 30 items.
C9_AtMostCapacity ==
    /\ Len(bItems) <= BatchCapacity
    /\ \A k \in 1..Len(bSubmitted) : ChunkSizes[k] <= BatchCapacity

\* the builder returned a full list while transactions were left in its input
C9_Witness ==
    /\ bpc \in {"post", "done"}
    /\ Len(bItems) = BatchCapacity
    /\ bIdx <= bN

\* ===================================== ensure_qb_account under concurrency
\* account names the concurrent syncs resolve
EnsureNames == { <<"Travel">>, <<"Sales">> }

\* the ledger refuses to create an account whose name exists: the
\* duplicate-name fault (code 6240), which qb_request turns into an exception
DuplicateName(accounts, name) == QbGetAccountByName(accounts, name) # NoRow

\* a sync calls ensure_qb_account(qb_tokens, name, ...)
EnsureCall(p) ==
    /\ ePc[p] = "idle"
    /\ \E name \in EnsureNames : eName' = [eName EXCEPT ![p] = name]
    /\ ePc' = [ePc EXCEPT ![p] = "lookup"]
    /\ UNCHANGED <<eAcc, eCreates, eFault, qbAccounts>>
    /\ UNCHANGED nonEnsureVars

\* 273-275: qb_get_account_by_name; a failing query raises, an account found
\* is returned
EnsureLookup(p) ==
    /\ ePc[p] = "lookup"
    /\ \E queryOk \in BOOLEAN :
          IF ~queryOk
          THEN /\ ePc' = [ePc EXCEPT ![p] = "raised"]
               /\ eFault' = [eFault EXCEPT ![p] = "query"]
               /\ UNCHANGED eAcc
          ELSE LET acc == QbGetAccountByName(qbAccounts, eName[p])
               IN  /\ ePc' = [ePc EXCEPT ![p] = IF acc # NoRow THEN "returned"
                                                ELSE "create"]
                   /\ eAcc' = [eAcc EXCEPT ![p] = acc]
                   /\ UNCHANGED eFault
    /\ UNCHANGED <<eName, eCreates, qbAccounts>>
    /\ UNCHANGED nonEnsureVars

\* 276 and qb_create_account 260-267: one POST; any fault of it, the
\* duplicate-name fault included, leaves ensure_qb_account as an exception
EnsureCreate(p) ==
    /\ ePc[p] = "create"
    /\ eCreates' = [eCreates EXCEPT ![p] = @ + 1]
    /\ IF DuplicateName(qbAccounts, eName[p])
       THEN /\ ePc' = [ePc EXCEPT ![p] = "raised"]
            /\ eFault' = [eFault EXCEPT ![p] = "duplicate"]
            /\ UNCHANGED <<eAcc, qbAccounts>>
       ELSE \E postOk \in BOOLEAN :
            IF postOk
            THEN /\ qbAccounts' = Append(qbAccounts, eName[p])
                 /\ eAcc' = [eAcc EXCEPT ![p] =
                                [Id |-> Len(qbAccounts) + 1, Name |-> eName[p]]]
                 /\ ePc' = [ePc EXCEPT ![p] = "returned"]
                 /\ UNCHANGED eFault
            ELSE /\ ePc' = [ePc EXCEPT ![p] = "raised"]
                 /\ eFault' = [eFault EXCEPT ![p] = "other"]
                 /\ UNCHANGED <<eAcc, qbAccounts>>
    /\ UNCHANGED eName
    /\ UNCHANGED nonEnsureVars

EnsureInit ==
    /\ SyncIdle
    /\ BatchIdle
    /\ qbAccounts \in {<<>>, << <<"Travel">> >>}
    /\ EnsureIdle
    /\ CreateIdle
    /\ StoreIdle
    /\ MapIdle
    /\ SeedIdle
    /\ NoteIdle
    /\ ProvIdle
    /\ RaceIdle

EnsureNext ==
    \E p \in Syncs :
        \/ EnsureCall(p)
        \/ EnsureLookup(p)
        \/ EnsureCreate(p)

SpecEnsure == EnsureInit /\ [][EnsureNext]_vars

\* -------------------------------------------- properties of SpecEnsure
\* C10: a call of ensure_qb_account whose create request met the
\* duplicate-name fault has returned the account existing under that name,
\* after no more than 3 create requests.
C10_DuplicateNameRecovered ==
    \A p \in Syncs :
        eFault[p] = "duplicate" =>
            /\ ePc[p] = "returned"
            /\ eAcc[p] = QbGetAccountByName(qbAccounts, eName[p])
            /\ eCreates[p] <= 3

\* ============================================ _qb_safe_create (SpecCreate)
\* range(0, 3): the create attempts of one call
MaxAttempts == 3

CreateKinds == {"Customer", "Vendor", "Item"}
BaseName == "Acme"
\* name after "name = f"{base_name}-{attempt+1}"": suffix 0 is base_name itself
CreateName(suffix) == IF suffix = 0 THEN <<BaseName>> ELSE <<BaseName, "-", suffix>>

\* the entities a call or another client of the ledger may create
CreateEntities == [kind : CreateKinds, suffix : 0..MaxAttempts]

\* the ledger keeps one list of display names for customers and vendors and
\* another for items: a create request meets fault 6240 when the name is taken
\* in the list of its kind, also by an entity of another kind
NameList(kind) == IF kind = "Item" THEN "items" ELSE "names"
NameTaken(entities, kind, suffix) ==
    \E e \in entities : e.suffix = suffix /\ NameList(e.kind) = NameList(kind)

\* the entity as the ledger's JSON carries it
EntityJson(e) == [Id |-> <<e.kind, e.suffix>>, Name |-> CreateName(e.suffix)]
\* {"Id": None, "Name": base_name}
Placeholder == [Id |-> <<>>, Name |-> CreateName(0)]

\* qb_find_entity_by_name: the entity of that kind with that name; a failed
\* query is swallowed and gives None
QbFindEntityByName(entities, kind, suffix, queryFails) ==
    IF ~queryFails /\ [kind |-> kind, suffix |-> suffix] \in entities
    THEN EntityJson([kind |-> kind, suffix |-> suffix])
    ELSE NoRow

\* a loop that allows one attempt more
AttemptsLeftOneMore(attempt) == attempt <= MaxAttempts

\* 98: for attempt in range(0, 3)
AttemptsLeft(attempt) == attempt < MaxAttempts

\* the ledger's answers to a create request it refuses: status, Fault code and
\* body (resp.text); the first is the duplicate-name fault, the others are a
\* validation fault, a reference fault whose detail names the Id 6240, and a
\* server error
DuplicateNameFault ==
    [status |-> <<"4", "0", "0">>, code |-> "6240",
     body |-> <<"{", "\"", "c", "o", "d", "e", "\"", ":", "\"", "6", "2", "4", "0", "\"", ",", "\"", "D", "e", "t", "a", "i", "l", "\"", ":", "\"", "D", "u", "p", "l", "i", "c", "a", "t", "e", " ", "N", "a", "m", "e", " ", "E", "x", "i", "s", "t", "s", "\"", "}">>]
OtherFaults ==
    { [status |-> <<"4", "0", "0">>, code |-> "6000",
       body |-> <<"{", "\"", "c", "o", "d", "e", "\"", ":", "\"", "6", "0", "0", "0", "\"", ",", "\"", "D", "e", "t", "a", "i", "l", "\"", ":", "\"", "B", "u", "s", "i", "n", "e", "s", "s", " ", "V", "a", "l", "i", "d", "a", "t", "i", "o", "n", " ", "E", "r", "r", "o", "r", "\"", "}">>],
      [status |-> <<"4", "0", "0">>, code |-> "2500",
       body |-> <<"{", "\"", "c", "o", "d", "e", "\"", ":", "\"", "2", "5", "0", "0", "\"", ",", "\"", "D", "e", "t", "a", "i", "l", "\"", ":", "\"", "I", "n", "v", "a", "l", "i", "d", " ", "R", "e", "f", "e", "r", "e", "n", "c", "e", " ", "I", "d", " ", ":", " ", "6", "2", "4", "0", "\"", "}">>],
      [status |-> <<"5", "0", "0">>, code |-> "none",
       body |-> <<"I", "n", "t", "e", "r", "n", "a", "l", " ", "S", "e", "r", "v", "e", "r", " ", "E", "r", "r", "o", "r">>] }

\* the answer to a create request the ledger carries out
CreatedAnswer == [status |-> <<"2", "0", "0">>, code |-> "none", body |-> <<>>]

\* qb_request 67: str(e) of the exception raised on a non-2xx answer
ExceptionMessage(fault) ==
    <<"Q", "u", "i", "c", "k", "B", "o", "o", "k", "s", " ", "A", "P", "I", " ", "e", "r", "r", "o", "r", " ">> \o fault.status \o <<":", " ">> \o fault.body

\* 111: "6240" in msg
DuplicateTest(msg) == Contains(msg, <<"6", "2", "4", "0">>)

\* a caller (qb_ensure_customer / qb_ensure_vendor / qb_ensure_item_service)
\* found no entity and enters _qb_safe_create
CreateCall ==
    /\ cPc = "idle"
    /\ \E root \in CreateKinds : cRoot' = root
    /\ cPc' = "post"
    /\ cAttempt' = 0
    /\ cName' = 0
    /\ UNCHANGED <<cPosted, cFault, cRefused, cVia, cResult, cEntities>>
    /\ UNCHANGED nonCreateVars

\* 99-108 and 109-111, 121: one create request with the current name; the
\* entity is returned on success, a fault other than 6240 is re-raised
CreatePost ==
    /\ cPc = "post"
    /\ AttemptsLeft(cAttempt)
    /\ cPosted' = Append(cPosted, cName)
    /\ \E answer \in IF NameTaken(cEntities, cRoot, cName)
                      THEN {DuplicateNameFault}
                      ELSE {CreatedAnswer} \cup OtherFaults :
          IF answer.status = <<"2", "0", "0">>
          THEN /\ cEntities' = cEntities \cup {[kind |-> cRoot, suffix |-> cName]}
               /\ cResult' = EntityJson([kind |-> cRoot, suffix |-> cName])
               /\ cVia' = "created"
               /\ cFault' = "none"
               /\ cPc' = "returned"
               /\ UNCHANGED cRefused
          ELSE /\ cRefused' = [code |-> answer.code, at |-> Len(cPosted) + 1]
               /\ IF DuplicateTest(ExceptionMessage(answer))
                  THEN /\ cFault' = "6240"
                       /\ cPc' = "find"
                  ELSE /\ cFault' = "other"
                       /\ cPc' = "raised"
               /\ UNCHANGED <<cVia, cResult, cEntities>>
    /\ UNCHANGED <<cRoot, cAttempt, cName>>
    /\ UNCHANGED nonCreateVars

\* 111-120: after fault 6240 the entity is looked up under the name just
\* tried; found, it is returned; otherwise the next attempt uses a suffixed name
CreateFind ==
    /\ cPc = "find"
    /\ \E queryFails \in BOOLEAN :
          LET existing == QbFindEntityByName(cEntities, cRoot, cName, queryFails)
          IN  IF existing # NoRow
              THEN /\ cResult' = existing
                   /\ cVia' = "found"
                   /\ cPc' = "returned"
                   /\ UNCHANGED <<cAttempt, cName>>
              ELSE /\ cName' = cAttempt + 1
                   /\ cAttempt' = cAttempt + 1
                   /\ cPc' = IF AttemptsLeft(cAttempt + 1) THEN "post" ELSE "final"
                   /\ UNCHANGED <<cVia, cResult>>
    /\ UNCHANGED <<cRoot, cPosted, cFault, cRefused, cEntities>>
    /\ UNCHANGED nonCreateVars

\* 122-126: the attempts are used up; the entity under base_name, or the
\* placeholder
CreateFinal ==
    /\ cPc = "final"
    /\ \E queryFails \in BOOLEAN :
          LET existing == QbFindEntityByName(cEntities, cRoot, 0, queryFails)
          IN  IF existing # NoRow
              THEN /\ cResult' = existing
                   /\ cVia' = "final"
              ELSE /\ cResult' = Placeholder
                   /\ cVia' = "placeholder"
    /\ cPc' = "returned"
    /\ UNCHANGED <<cRoot, cAttempt, cName, cPosted, cFault, cRefused, cEntities>>
    /\ UNCHANGED nonCreateVars

\* another client of the ledger creates an entity while the call runs
OtherClientCreates ==
    /\ cPc # "idle"
    /\ \E e \in CreateEntities :
          /\ ~NameTaken(cEntities, e.kind, e.suffix)
          /\ cEntities' = cEntities \cup {e}
    /\ UNCHANGED <<cPc, cRoot, cAttempt, cName, cPosted, cFault, cRefused, cVia, cResult>>
    /\ UNCHANGED nonCreateVars

CreateInit ==
    /\ SyncIdle
    /\ BatchIdle
    /\ qbAccounts = <<>>
    /\ EnsureIdle
    /\ CreateIdle
    /\ StoreIdle
    /\ MapIdle
    /\ SeedIdle
    /\ NoteIdle
    /\ ProvIdle
    /\ RaceIdle

CreateStep ==
    \/ CreateCall
    \/ CreatePost
    \/ CreateFind
    \/ CreateFinal

CreateNext ==
    \/ CreateStep
    \/ OtherClientCreates

\* every request of the call ends (requests.request has timeout=60), so a call
\* in progress keeps taking steps
SpecCreate == CreateInit /\ [][CreateNext]_vars /\ WF_vars(CreateStep)

\* -------------------------------------------- properties of SpecCreate
\* the names tried so far are base, base-1, base-2 in this order
PostedInOrder == \A k \in 1..Len(cPosted) : cPosted[k] = k - 1

\* C11: a call of _qb_safe_create sends at most 3 create requests, with the
\* names base, base-1, base-2; after fault 6240 it returns the entity found
\* under the name just tried; with the attempts used up it returns the entity
\* found under the base name or else the placeholder with Id None; it raises
\* only on a fault other than 6240, and every call started ends.
C11_SafeCreate ==
    /\ [](/\ Len(cPosted) <= 3
          /\ PostedInOrder
          /\ (cPc = "raised" => cFault = "other")
          /\ (cVia = "created" =>
                /\ cResult = [Id |-> <<cRoot, cName>>, Name |-> CreateName(cName)]
                /\ [kind |-> cRoot, suffix |-> cName] \in cEntities)
          /\ (cVia = "found" =>
                /\ cFault = "6240"
                /\ cResult = [Id |-> <<cRoot, cName>>, Name |-> CreateName(cName)]
                /\ [kind |-> cRoot, suffix |-> cName] \in cEntities)
          /\ (cVia = "final" =>
                /\ Len(cPosted) = 3
                /\ cResult = [Id |-> <<cRoot, 0>>, Name |-> <<BaseName>>]
                /\ [kind |-> cRoot, suffix |-> 0] \in cEntities)
          /\ (cVia = "placeholder" =>
                /\ Len(cPosted) = 3
                /\ cResult = [Id |-> <<>>, Name |-> <<BaseName>>]))
    /\ ((cPc # "idle") ~> (cPc \in {"returned", "raised"}))

\* three create requests met fault 6240 and the placeholder was returned
C11_Witness ==
    /\ cPc = "returned"
    /\ cVia = "placeholder"
    /\ cPosted = <<0, 1, 2>>
    /\ cFault = "6240"

\* C36: in _qb_safe_create a refused create request whose fault is not the
\* duplicate-name fault (its code is not 6240) is re-raised at once: it is
\* the last create request of the call, no lookup follows it and the call
\* raises.
C36_OtherFaultReraised ==
    (cRefused # NoRow /\ cRefused.code # "6240") =>
        /\ cPc = "raised"
        /\ Len(cPosted) = cRefused.at

\* ========================================== save_transaction (SpecStore)
\* transaction_data of the calls: two syncs' views of external transaction
\* "tx-1" that differ in every column, and another transaction
StoreData ==
    { [transaction_id |-> "tx-1", account_id |-> 1, amount |-> -42500,
       date |-> "2024-01-05", merchant_name |-> "Uber", category |-> "Travel",
       pending |-> TRUE],
      [transaction_id |-> "tx-1", account_id |-> 2, amount |-> -43100,
       date |-> "2024-01-06", merchant_name |-> "Uber Trip", category |-> "Taxi",
       pending |-> FALSE],
      [transaction_id |-> "tx-2", account_id |-> 1, amount |-> 120000,
       date |-> "2024-01-05", merchant_name |-> "Client", category |-> "",
       pending |-> FALSE] }

\* the stored rows of an external id: SELECT * WHERE plaid_transaction_id = id
RowsOf(rows, id) ==
    LET hits == TxnRows(rows, id)
    IN  [k \in 1..Cardinality(hits) |->
           rows[CHOOSE i \in hits : Cardinality({j \in hits : j <= i}) = k]]

\* 345-346: the call opens its own connection and cursor
StoreConnect(p) ==
    /\ sPc[p] = "idle"
    /\ sCalls < MaxStoreCalls
    /\ sCalls' = sCalls + 1
    /\ \E d \in StoreData : sData' = [sData EXCEPT ![p] = d]
    /\ sPc' = [sPc EXCEPT ![p] = "connected"]
    /\ UNCHANGED <<sLast, sSeen, sRacing, sLock, sReturned, transactions>>
    /\ UNCHANGED nonStoreVars

\* 349-363: the INSERT OR IGNORE statement runs under the database write
\* lock, which the connection keeps until it commits; a connection that finds
\* the lock taken waits for it.  cursor.lastrowid is read right after.
StoreExecute(p) ==
    /\ sPc[p] = "connected"
    /\ sLock = 0
    /\ sLock' = p
    /\ sSeen' = [sSeen EXCEPT ![p] = RowsOf(transactions, sData[p].transaction_id)]
    /\ sRacing' = [sRacing EXCEPT ![p] = {q \in Syncs : sPc[q] = "connected"} \ {p}]
    /\ transactions' = SaveTransaction(transactions, sData[p])
    /\ sLast' = [sLast EXCEPT ![p] = SaveTransactionId(transactions, sData[p])]
    /\ sPc' = [sPc EXCEPT ![p] = "executed"]
    /\ UNCHANGED <<sData, sCalls, sReturned>>
    /\ UNCHANGED nonStoreVars

\* 364 and 369-370: commit, close, return transaction_id
StoreCommit(p) ==
    /\ sPc[p] = "executed"
    /\ sLock' = 0
    /\ sReturned' = Append(sReturned, [sync |-> p, data |-> sData[p],
                                       ret |-> sLast[p], seen |-> sSeen[p],
                                       racing |-> sRacing[p]])
    /\ sPc' = [sPc EXCEPT ![p] = "idle"]
    /\ UNCHANGED <<sData, sLast, sSeen, sRacing, sCalls, transactions>>
    /\ UNCHANGED nonStoreVars

StoreInit ==
    /\ SyncIdle
    /\ BatchIdle
    /\ qbAccounts = <<>>
    /\ EnsureIdle
    /\ CreateIdle
    /\ StoreIdle
    /\ MapIdle
    /\ SeedIdle
    /\ NoteIdle
    /\ ProvIdle
    /\ RaceIdle

StoreNext ==
    \E p \in Syncs :
        \/ StoreConnect(p)
        \/ StoreExecute(p)
        \/ StoreCommit(p)

SpecStore == StoreInit /\ [][StoreNext]_vars

\* --------------------------------------------- properties of SpecStore
StoreIds == {d.transaction_id : d \in StoreData}
\* finished calls for an external id, and those among them that inserted
CallsFor(id) == {k \in 1..Len(sReturned) : sReturned[k].data.transaction_id = id}
WinnersFor(id) == {k \in CallsFor(id) : sReturned[k].ret # 0}

\* C12: of the save_transaction calls for one external transaction id, made
\* concurrently or not, exactly one inserts the row and every other one is a
\* no-op that returns 0; the table never holds two rows with the same id.
C12_OneWinner ==
    /\ [](\A id \in StoreIds :
            /\ Cardinality(TxnRows(transactions, id)) <= 1
            /\ Cardinality(WinnersFor(id)) <= 1
            /\ (CallsFor(id) # {} =>
                  /\ Cardinality(WinnersFor(id)) = 1
                  /\ Cardinality(TxnRows(transactions, id)) = 1))
    /\ [][\A p \in Syncs :
            (sPc[p] = "connected" /\ sPc'[p] = "executed" /\ sLast'[p] = 0)
               => transactions' = transactions]_vars

\* two syncs were inside save_transaction for "tx-1" at the same time; one
\* inserted and the other returned 0
C12_Witness ==
    /\ Len(sReturned) = 2
    /\ sReturned[1].sync # sReturned[2].sync
    /\ sReturned[1].data.transaction_id = "tx-1"
    /\ sReturned[2].data.transaction_id = "tx-1"
    /\ sReturned[1].data # sReturned[2].data
    /\ sReturned[1].ret # 0
    /\ sReturned[2].ret = 0
    /\ sCalls = 2
    /\ sReturned[1].racing = {sReturned[2].sync}
    /\ sReturned[1].seen = <<>>
    /\ sReturned[2].seen # <<>>

\* C13: a save_transaction call for an id already stored returns 0 and the
\* stored row keeps every column it had, whatever the new data; a call for an
\* id not yet stored returns a non-zero id and leaves exactly one row for it,
\* holding the data of the call.
C13_InsertOrIgnore ==
    \A k \in 1..Len(sReturned) :
        LET c == sReturned[k]
            now == RowsOf(transactions, c.data.transaction_id)
        IN  IF c.seen # <<>>
            THEN /\ c.ret = 0
                 /\ now = c.seen
            ELSE /\ c.ret # 0
                 /\ Len(now) = 1
                 /\ now[1].id = c.ret
                 /\ now[1].data = c.data

\* a call with different data for a stored id returned 0 and changed nothing
C13_Witness ==
    \E k \in 1..Len(sReturned) :
        /\ sReturned[k].seen # <<>>
        /\ sReturned[k].ret = 0
        /\ sReturned[k].seen[1].data # sReturned[k].data
        /\ RowsOf(transactions, sReturned[k].data.transaction_id) = sReturned[k].seen

\* ==================================== map_plaid_category_to_qb (SpecMap)
\* category strings handed to the mapper: empty and missing, a keyword in
\* either case, several keywords in one string, a keyword inside a longer
\* word, and strings no keyword occurs in
MapCategories ==
    {
      <<>>,
      <<"T", "r", "a", "v", "e", "l">>,
      <<"T", "R", "A", "V", "E", "L">>,
      <<"F", "o", "o", "d", " ", "a", "n", "d", " ", "D", "r", "i", "n", "k", ",", "R", "e", "s", "t", "a", "u", "r", "a", "n", "t", "s">>,
      <<"A", "W", "S", " ", "C", "l", "o", "u", "d", " ", "H", "o", "s", "t", "i", "n", "g">>,
      <<"S", "o", "f", "t", "w", "a", "r", "e", " ", "M", "a", "r", "k", "e", "t", "i", "n", "g">>,
      <<"O", "f", "f", "i", "c", "e", " ", "R", "e", "n", "t">>,
      <<"B", "a", "n", "k", " ", "F", "e", "e", "s">>,
      <<"P", "r", "o", "f", "e", "s", "s", "i", "o", "n", "a", "l", " ", "S", "e", "r", "v", "i", "c", "e", "s">>,
      <<"C", "o", "f", "f", "e", "e", " ", "S", "h", "o", "p">>,
      <<"I", "n", "s", "u", "r", "a", "n", "c", "e">>,
      <<"U", "t", "i", "l", "i", "t", "i", "e", "s">>,
      <<"A", "d", "v", "e", "r", "t", "i", "s", "i", "n", "g">>,
      <<"P", "a", "r", "e", "n", "t">>,
      NoCategory
    }

\* the arguments of a call: every category as an expense, two as income
MapInputs ==
    [category : MapCategories, is_income : {FALSE}]
      \cup [category : {<<"T", "r", "a", "v", "e", "l">>, <<>>}, is_income : {TRUE}]

\* one call with the next arguments
MapCall ==
    /\ Len(mReturned) < Len(mInputs)
    /\ LET in == mInputs[Len(mReturned) + 1]
       IN  mReturned' = Append(mReturned,
                               MapPlaidCategoryToQb(in.category, in.is_income))
    /\ UNCHANGED mInputs
    /\ UNCHANGED nonMapVars

MapInit ==
    /\ SyncIdle
    /\ BatchIdle
    /\ qbAccounts = <<>>
    /\ EnsureIdle
    /\ CreateIdle
    /\ StoreIdle
    /\ mInputs \in [1..MaxMapCalls -> MapInputs]
    /\ mReturned = <<>>
    /\ SeedIdle
    /\ NoteIdle
    /\ ProvIdle
    /\ RaceIdle

MapNext == MapCall

SpecMap == MapInit /\ [][MapNext]_vars

\* ----------------------------------------------- properties of SpecMap
\* key occurs in cat when letter case is ignored on both sides
OccursIgnoringCase(cat, key) ==
    \E off \in 0..(Len(cat) - Len(key)) :
        \A i \in 1..Len(key) : LowerChar(cat[off + i]) = LowerChar(key[i])

RECURSIVE FirstKeyword(_, _)
\* the account of the first keyword, from row k of the table on, that occurs
\* in the category; the uncategorized account when none does
FirstKeyword(cat, k) ==
    IF k > Len(CategoryMapping)
    THEN [name |-> <<"Uncategorized Expense">>, type |-> "Expense",
          subtype |-> "UncategorizedExpense"]
    ELSE IF OccursIgnoringCase(cat, CategoryMapping[k].key)
         THEN CategoryMapping[k].val
         ELSE FirstKeyword(cat, k + 1)

\* the reference mapping
ReferenceMapping(category, is_income) ==
    IF is_income
    THEN [name |-> <<"Sales">>, type |-> "Income", subtype |-> "SalesOfProductIncome"]
    ELSE IF category = NoCategory THEN FirstKeyword(<<>>, 1)
         ELSE FirstKeyword(category, 1)

\* C18: every tuple map_plaid_category_to_qb returned equals the reference
\* mapping of its arguments: the Sales income account for income, else the
\* account of the first keyword in table order that occurs in the category
\* ignoring case, else "Uncategorized Expense".
C18_MatchesReference ==
    \A k \in 1..Len(mReturned) :
        mReturned[k] = ReferenceMapping(mInputs[k].category, mInputs[k].is_income)

\* "Software Marketing" went to Advertising (table order), "Coffee Shop" to
\* Bank Charges (substring), a missing category to Uncategorized Expense
C18_Witness ==
    /\ Len(mReturned) = 3
    /\ mInputs[1] = [category |-> <<"S", "o", "f", "t", "w", "a", "r", "e", " ", "M", "a", "r", "k", "e", "t", "i", "n", "g">>, is_income |-> FALSE]
    /\ mReturned[1].name = <<"Advertising">>
    /\ mInputs[2] = [category |-> <<"C", "o", "f", "f", "e", "e", " ", "S", "h", "o", "p">>, is_income |-> FALSE]
    /\ mReturned[2].name = <<"Bank Charges">>
    /\ mInputs[3] = [category |-> NoCategory, is_income |-> FALSE]
    /\ mReturned[3].name = <<"Uncategorized Expense">>

RngModulus == 65536
RngMultiplier == 25173
RngIncrement == 13849
RngShift == 256

\* states the generator, seeded from the operating system at import, may be
\* in when the first call starts
RngStart == {0, RngShift, RngModulus - 1}

\* a seed call that leaves the generator as it was
RandomSeedKeepsState(a) == rng
\* 88: random.seed(company_id)
RandomSeed(a) == (a * RngMultiplier + RngIncrement) % RngModulus
\* the generator after one draw
RandomNext(s) == (s * RngMultiplier + RngIncrement) % RngModulus
\* the number a draw that left state s delivered, in 0..RngShift-1
Drawn(s) == s \div RngShift
\* random.randint(lo, hi)
RandInt(s, lo, hi) == lo + (Drawn(s) % (hi - lo + 1))
\* random.randrange(n)
RandRange(s, n) == Drawn(s) % n
\* random.choice(seq)
Choice(s, seq) == seq[1 + (Drawn(s) % Len(seq))]
\* float(round(random.uniform(lo, hi), 2)), in mills
Uniform2(s, lo, hi) == lo + 10 * ((((hi - lo) \div 10) * Drawn(s)) \div (RngShift - 1))

\* company ids the fallback is run for
SeedCompanies == {7, 8}

\* 27-50: the two mock accounts of a company
MockAccountData(company_id) ==
    << [company_id |-> company_id, account_id |-> <<"mock_acct", company_id, "chk">>,
        name |-> "Operating Checking", current_balance |-> 75000000,
        available_balance |-> 74000000],
       [company_id |-> company_id, account_id |-> <<"mock_acct", company_id, "svg">>,
        name |-> "Reserve Savings", current_balance |-> 25000000,
        available_balance |-> 25000000] >>

\* DatabaseManager.save_account with every column the seeding reads back
SaveAccountData(rows, account_data) ==
    Append(rows, [id |-> Len(rows) + 1,
                  company_id |-> account_data.company_id,
                  plaid_account_id |-> account_data.account_id,
                  current_balance |-> account_data.current_balance,
                  available_balance |-> account_data.available_balance])
\* cursor.lastrowid of save_account
SaveAccountId(rows, account_data) == Len(rows) + 1

\* get_account_by_plaid_id(company_id, plaid_account_id).get("id", 0)
LocalAccountId(rows, company_id, plaid_account_id) ==
    LET hits == {i \in 1..Len(rows) : /\ rows[i].company_id = company_id
                                      /\ rows[i].plaid_account_id = plaid_account_id}
    IN  IF hits = {} THEN 0 ELSE rows[CHOOSE i \in hits : \A j \in hits : i <= j].id

RECURSIVE SeedSaveAccounts(_, _, _)
\* 52-59: the accounts loop; [rows: the table, account_rows: the ids collected]
SeedSaveAccounts(st, accounts, k) ==
    IF k > Len(accounts) THEN st
    ELSE LET saved == SaveAccountData(st.rows, accounts[k])
             account_id == SaveAccountId(st.rows, accounts[k])
             row == IF account_id = 0
                    THEN LocalAccountId(saved, accounts[k].company_id, accounts[k].account_id)
                    ELSE account_id
         IN  SeedSaveAccounts([rows |-> saved,
                               account_rows |-> Append(st.account_rows, row)],
                              accounts, k + 1)

merchants_income == <<"Stripe Payout", "Shopify Payout", "Client Payment", "Interest">>
merchants_exp == <<"AWS", "Google Cloud", "Figma", "Slack", "OpenAI", "Payroll",
                   "Office Rent", "Uber", "Restaurant", "Supplies">>
categories_income == <<"Sales", "Services", "Interest">>
categories_exp == <<"Cloud Services", "Software", "Payroll", "Rent", "Travel",
                    "Meals", "Office Supplies">>

\* an expense stored with the sign of the draw
ExpenseAmountKeepsSign(amt) == amt
\* 115: "amount": -amt
ExpenseAmount(amt) == 0 - amt

\* -1, 0 or 1
Sign(x) == IF x > 0 THEN 1 ELSE IF x < 0 THEN 0 - 1 ELSE 0

\* what is kept of a saved transaction: its account, its date, the loop that
\* built it and the sign of its amount
Kept(txn, income) ==
    [account_id |-> txn.account_id, date |-> txn.date, income |-> income,
     sign |-> Sign(txn.amount)]

\* save_transaction of a transaction under a fresh uuid4 id, which no row of
\* the table carries: the INSERT OR IGNORE inserts and lastrowid is the new rowid
SaveFreshTransactionId(stored) == stored + 1

RECURSIVE SeedTxns(_, _, _, _, _, _)
\* 94-106 / 109-122: n transactions of one day; st is [rng, stored, drawn,
\* synced, saved]: stored the size of the transactions table, drawn the
\* transactions built so far, synced the running transactions_synced and
\* saved what the claims read of the transactions saved so far
SeedTxns(st, n, income, date_str, account_rows, call) ==
    IF n = 0 THEN st
    ELSE LET s1 == RandomNext(st.rng)
             s2 == RandomNext(s1)
             s3 == RandomNext(s2)
             s4 == RandomNext(s3)
             amt == IF income THEN Uniform2(s2, 200000, 5000000)
                    ELSE Uniform2(s2, 10000, 3000000)
             txn == [account_id |-> account_rows[1 + RandRange(s1, Len(account_rows))],
                     amount |-> IF income THEN amt ELSE ExpenseAmount(amt),
                     date |-> date_str,
                     category |-> IF income THEN Choice(s4, categories_income)
                                  ELSE Choice(s4, categories_exp)]
             inserted == SaveFreshTransactionId(st.stored)
         IN  SeedTxns([rng |-> s4,
                       stored |-> st.stored + 1,
                       drawn |-> st.drawn + 1,
                       synced |-> IF inserted > 0 THEN st.synced + 1 ELSE st.synced,
                       saved |-> IF inserted > 0 THEN st.saved \cup {Kept(txn, income)}
                                 ELSE st.saved],
                      n - 1, income, date_str, account_rows, call)

RECURSIVE SeedDays(_, _, _, _, _, _)
\* 90-122: the loop over the days from `day` on; datetime.now() is read once a
\* day and falls on the next day from iteration `midnight` on
SeedDays(st, day, now, midnight, account_rows, call) ==
    IF day >= MockDays THEN st
    ELSE LET date_str == (IF day >= midnight THEN now + 1 ELSE now) - day
             s1 == RandomNext(st.rng)
             inc == SeedTxns([st EXCEPT !.rng = s1], RandInt(s1, 0, 2), TRUE,
                             date_str, account_rows, call)
             s2 == RandomNext(inc.rng)
             exp == SeedTxns([inc EXCEPT !.rng = s2], RandInt(s2, 2, 5), FALSE,
                             date_str, account_rows, call)
         IN  \* the day's state is computed before the next day starts
             IF exp.drawn >= st.drawn
             THEN SeedDays(exp, day + 1, now, midnight, account_rows, call)
             ELSE exp

\* iterations of the loop at which midnight may pass, once in a behaviour;
\* MockDays: it does not
MidnightAt(now) == IF now = 0 THEN {1, MockDays} ELSE {MockDays}

\* the syncs other than p, marked as having run next to another call
Disturbed(p) ==
    [q \in Syncs |-> IF q # p /\ seedPc[q] = "loop" THEN FALSE ELSE seedAlone[q]]

\* 27-88: the accounts are saved and the generator is seeded; a sync runs
\* the fallback once
SeedBegin(p) ==
    /\ seedPc[p] = "idle"
    /\ \E company_id \in SeedCompanies :
         LET saved == SeedSaveAccounts([rows |-> bank_accounts, account_rows |-> <<>>],
                                       MockAccountData(company_id), 1)
         IN  /\ bank_accounts' = saved.rows
             /\ seedRows' = [seedRows EXCEPT ![p] = saved.account_rows]
             /\ seedCompany' = [seedCompany EXCEPT ![p] = company_id]
             /\ rng' = RandomSeed(company_id)
    /\ seedPc' = [seedPc EXCEPT ![p] = "loop"]
    /\ seedAlone' = [Disturbed(p) EXCEPT ![p] = \A q \in Syncs : seedPc[q] # "loop"]
    /\ UNCHANGED <<clock, seedStored, seedReturned>>
    /\ UNCHANGED nonSeedVars

\* 90-124: the transactions are drawn and saved, the counts returned
SeedLoop(p) ==
    /\ seedPc[p] = "loop"
    /\ \E midnight \in MidnightAt(clock) :
       \E done \in {SeedDays([rng |-> rng, stored |-> seedStored, drawn |-> 0,
                                synced |-> 0, saved |-> {}],
                               0, clock, midnight, seedRows[p], p)} :
             /\ rng' = done.rng
             /\ seedStored' = done.stored
             /\ clock' = IF midnight < MockDays THEN clock + 1 ELSE clock
             /\ seedReturned' = Append(seedReturned,
                    [sync |-> p, company_id |-> seedCompany[p],
                     account_rows |-> seedRows[p],
                     accounts_synced |-> Len(MockAccountData(seedCompany[p])),
                     transactions_synced |-> done.synced,
                     saved |-> done.saved,
                     alone |-> seedAlone[p],
                     returned_on |-> clock'])
    /\ seedPc' = [seedPc EXCEPT ![p] = "done"]
    /\ seedAlone' = Disturbed(p)
    /\ UNCHANGED <<bank_accounts, seedCompany, seedRows>>
    /\ UNCHANGED nonSeedVars

SeedInit ==
    /\ SyncIdle
    /\ BatchIdle
    /\ qbAccounts = <<>>
    /\ EnsureIdle
    /\ CreateIdle
    /\ StoreIdle
    /\ MapIdle
    /\ rng \in RngStart
    /\ clock = 0
    /\ bank_accounts = <<>>
    /\ seedPc = [p \in Syncs |-> "idle"]
    /\ seedCompany = [p \in Syncs |-> 0]
    /\ seedRows = [p \in Syncs |-> <<>>]
    /\ seedAlone = [p \in Syncs |-> TRUE]
    /\ seedStored = 0
    /\ seedReturned = <<>>
    /\ NoteIdle
    /\ ProvIdle
    /\ RaceIdle

SeedNext ==
    \E p \in Syncs :
        \/ SeedBegin(p)
        \/ SeedLoop(p)

SpecSeed == SeedInit /\ [][SeedNext]_vars

\* ---------------------------------------------- properties of SpecSeed
\* the balances of the accounts a finished call saved, in account order
BalancesOf(r) ==
    [k \in 1..Len(r.account_rows) |->
        [current_balance |-> bank_accounts[r.account_rows[k]].current_balance,
         available_balance |-> bank_accounts[r.account_rows[k]].available_balance]]

\* C21: two finished runs of seed_mock_plaid for the same company id, each run
\* on its own, saved accounts with identical balances and returned identical
\* transaction counts.
C21_SeedRepeatable ==
    \A i, j \in 1..Len(seedReturned) :
        (/\ seedReturned[i].company_id = seedReturned[j].company_id
         /\ seedReturned[i].alone
         /\ seedReturned[j].alone)
        => /\ BalancesOf(seedReturned[i]) = BalancesOf(seedReturned[j])
           /\ seedReturned[i].transactions_synced = seedReturned[j].transactions_synced
           /\ seedReturned[i].accounts_synced = seedReturned[j].accounts_synced

\* company 7 seeded twice, one run after the other
C21_Witness ==
    /\ Len(seedReturned) = 2
    /\ seedReturned[1].company_id = 7
    /\ seedReturned[2].company_id = 7
    /\ seedReturned[1].alone
    /\ seedReturned[2].alone
    /\ seedReturned[1].transactions_synced > 0
    /\ seedReturned[1].account_rows # seedReturned[2].account_rows

\* what seed_mock_plaid returns for a company when no other call runs
\* between its random.seed and its return
SoloCounts ==
    [c \in SeedCompanies |->
        SeedDays([rng |-> RandomSeed(c), stored |-> 0, drawn |-> 0, synced |-> 0,
                  saved |-> {}],
                 0, 0, MockDays, <<1, 2>>, 0).synced]

\* C24: a company's fallback seeding returns the transaction count it returns
\* when run alone, whatever another company's run does in the meantime: the
\* runs share no mutable state besides the local store.
C24_RunsIndependent ==
    \A i \in 1..Len(seedReturned) :
        seedReturned[i].transactions_synced = SoloCounts[seedReturned[i].company_id]

\* C33: a run of seed_mock_plaid for a company that an earlier run has seeded
\* inserts no transaction row: it returns transactions_synced = 0.
C33_SecondSeedInsertsNothing ==
    \A i, j \in 1..Len(seedReturned) :
        (i < j /\ seedReturned[i].company_id = seedReturned[j].company_id)
        => seedReturned[j].transactions_synced = 0

\* the accounts of a finished call, as a set
AccountRowsOf(r) == {r.account_rows[k] : k \in 1..Len(r.account_rows)}

\* C26: every transaction a seed_mock_plaid call saved is dated within the
\* last 30 days of the call's return, has a positive amount when built as
\* income and a negative one when built as an expense, and carries the local
\* id of an account the same call saved for its company.
C26_SeedStructurallyValid ==
    \A i \in 1..Len(seedReturned) :
        LET r == seedReturned[i]
        IN  \A t \in r.saved :
              /\ t.date <= r.returned_on
              /\ t.date >= r.returned_on - MockDays
              /\ t.income => t.sign = 1
              /\ ~t.income => t.sign = 0 - 1
              /\ t.account_id \in AccountRowsOf(r)
              /\ t.account_id \in 1..Len(bank_accounts)
              /\ bank_accounts[t.account_id].company_id = r.company_id

\* a call that ran across midnight next to another call saved income and
\* expenses on both of its accounts, the oldest 29 days before its return
C26_Witness ==
    \E i \in 1..Len(seedReturned) :
        LET r == seedReturned[i]
        IN  /\ ~r.alone
            /\ r.returned_on = 1
            /\ \E t \in r.saved : t.income /\ t.account_id = r.account_rows[1]
            /\ \E t \in r.saved : ~t.income /\ t.account_id = r.account_rows[2]
            /\ \E t \in r.saved : t.date = r.returned_on - (MockDays - 1)
            /\ r.transactions_synced >= 2 * MockDays

\* ============================ the marker of a ledger document (SpecNote)
\* Strings are sequences of characters.
NoteKinds == DocKinds

\* transaction ids: one a prefix of another, and a uuid-like one in mixed case
NoteIds == { <<"t", "x", "1">>, <<"t", "x", "1", "0">>, <<"3", "F", "2", "a", "-", "9", "c">> }

\* f"PLD:{transaction_id}"
Marker(id) == <<"P", "L", "D", ":">> \o id

\* the marker in lower case
PrivateNoteWrittenLower(kind, id) == Lower(Marker(id))
\* 183/200, 208/229, 801/825: the PrivateNote of the payload the create
\* function of the kind sends
PrivateNoteWritten(kind, id) == Marker(id)
\* 184, 209, 803: the note the existence check of the kind is called with
PrivateNoteQueried(kind, id) == Marker(id)

\* 160-161, 172-173, 755-757: the query text of the existence check
FindQuery(kind, note) ==
    CASE kind = "Invoice" -> <<"s", "e", "l", "e", "c", "t", " ", "I", "d", ",", " ", "P", "r", "i", "v", "a", "t", "e", "N", "o", "t", "e", " ", "f", "r", "o", "m", " ", "I", "n", "v", "o", "i", "c", "e", " ", "w", "h", "e", "r", "e", " ", "P", "r", "i", "v", "a", "t", "e", "N", "o", "t", "e", " ", "=", " ", "'">> \o note \o <<"'">>
      [] kind = "Bill" -> <<"s", "e", "l", "e", "c", "t", " ", "I", "d", ",", " ", "P", "r", "i", "v", "a", "t", "e", "N", "o", "t", "e", " ", "f", "r", "o", "m", " ", "B", "i", "l", "l", " ", "w", "h", "e", "r", "e", " ", "P", "r", "i", "v", "a", "t", "e", "N", "o", "t", "e", " ", "=", " ", "'">> \o note \o <<"'">>
      [] kind = "JournalEntry" -> <<"s", "e", "l", "e", "c", "t", " ", "I", "d", " ", "f", "r", "o", "m", " ", "J", "o", "u", "r", "n", "a", "l", "E", "n", "t", "r", "y", " ", "w", "h", "e", "r", "e", " ", "P", "r", "i", "v", "a", "t", "e", "N", "o", "t", "e", " ", "=", " ", "'">> \o note \o <<"'">>

\* urllib.parse.quote: letters, digits and "_.-~/" pass, the other characters
\* that occur are percent-encoded
PercentCodes ==
    (" " :> <<"%", "2", "0">>) @@ ("'" :> <<"%", "2", "7">>) @@
    ("," :> <<"%", "2", "C">>) @@ (":" :> <<"%", "3", "A">>) @@
    ("=" :> <<"%", "3", "D">>)

RECURSIVE Quote(_)
Quote(str) ==
    IF str = <<>> THEN <<>>
    ELSE (IF Head(str) \in DOMAIN PercentCodes THEN PercentCodes[Head(str)]
          ELSE <<Head(str)>>) \o Quote(Tail(str))

RECURSIVE Unquote(_)
\* the ledger's decoding of the query parameter
Unquote(str) ==
    IF str = <<>> THEN <<>>
    ELSE IF Head(str) = "%" /\ Len(str) >= 3
         THEN <<CHOOSE c \in DOMAIN PercentCodes : PercentCodes[c] = SubSeq(str, 1, 3)>>
              \o Unquote(SubSeq(str, 4, Len(str)))
         ELSE <<Head(str)>> \o Unquote(Tail(str))

\* 246: the query parameter of the endpoint qb_query requests
QueryParameter(q) == Quote(q)

\* the string literal of a query: the characters between its first quote and
\* the quote after it
LiteralOf(q) ==
    LET quotes == {i \in 1..Len(q) : q[i] = "'"}
        first == CHOOSE i \in quotes : \A j \in quotes : i <= j
        rest == quotes \ {first}
        next == CHOOSE i \in rest : \A j \in rest : i <= j
    IN  SubSeq(q, first + 1, next - 1)

\* per kind and id: the literal the ledger compares PrivateNote with when the
\* existence check runs
QueriedLiteral ==
    [kind \in NoteKinds |-> [id \in NoteIds |->
        LiteralOf(Unquote(QueryParameter(FindQuery(kind, PrivateNoteQueried(kind, id)))))]]

\* per kind and id: the PrivateNote a created document carries
WrittenNote ==
    [kind \in NoteKinds |-> [id \in NoteIds |-> PrivateNoteWritten(kind, id)]]

\* the ledger's answer to the existence check: the documents of the kind whose
\* PrivateNote equals the literal
NoteQuery(docs, kind, literal) ==
    {d \in docs : d.kind = kind /\ d.PrivateNote = literal}

\* qb_create_invoice_from_txn / qb_create_bill_from_txn / the iteration of
\* build_batch_journal_items followed by its batch post, for one transaction,
\* with every ledger request answered: the check, then the create unless the
\* check found a document
NoteCreateFromTxn(kind, id) ==
    /\ nCalls[<<kind, id>>] < MaxRuns
    /\ nCalls' = [nCalls EXCEPT ![<<kind, id>>] = @ + 1]
    /\ IF NoteQuery(nDocs, kind, QueriedLiteral[kind][id]) # {}
       THEN /\ nFound' = nFound \cup {<<kind, id>>}
            /\ UNCHANGED nDocs
       ELSE /\ nDocs' = nDocs \cup
                    {[kind |-> kind, PrivateNote |-> WrittenNote[kind][id],
                      copy |-> 1 + Cardinality(NoteQuery(nDocs, kind, WrittenNote[kind][id]))]}
            /\ UNCHANGED nFound
    /\ UNCHANGED nonNoteVars

NoteInit ==
    /\ SyncIdle
    /\ BatchIdle
    /\ qbAccounts = <<>>
    /\ EnsureIdle
    /\ CreateIdle
    /\ StoreIdle
    /\ MapIdle
    /\ SeedIdle
    /\ nDocs = {}
    /\ nCalls = [pair \in NoteKinds \X NoteIds |-> 0]
    /\ nFound = {}
    /\ ProvIdle
    /\ RaceIdle

NoteNext == \E kind \in NoteKinds, id \in NoteIds : NoteCreateFromTxn(kind, id)

SpecNote == NoteInit /\ [][NoteNext]_vars

\* ---------------------------------------------- properties of SpecNote
\* the documents of a kind created for a transaction id
DocsFor(kind, id) == NoteQuery(nDocs, kind, Marker(id))

\* C27: for each kind of document the marker a create function writes into
\* PrivateNote is the string its existence check asks the ledger for, so the
\* check of a later call finds the document an earlier call created and no
\* second one is created.
C27_MarkerFoundLater ==
    \A kind \in NoteKinds, id \in NoteIds :
        /\ WrittenNote[kind][id] = QueriedLiteral[kind][id]
        /\ nCalls[<<kind, id>>] >= 1 => Cardinality(DocsFor(kind, id)) = 1
        /\ nCalls[<<kind, id>>] >= 2 => <<kind, id>> \in nFound

\* a document of each kind was created for "tx1" and "tx10" and found again
\* by a later call
C27_Witness ==
    \A kind \in NoteKinds :
        /\ nCalls[<<kind, <<"t", "x", "1">>>>] = 2
        /\ nCalls[<<kind, <<"t", "x", "1", "0">>>>] = 2
        /\ <<kind, <<"t", "x", "1">>>> \in nFound
        /\ <<kind, <<"t", "x", "1", "0">>>> \in nFound
        /\ Cardinality(nDocs) >= 6

\* ================================= the ensure operations under concurrency
\* (SpecProv) qb_ensure_customer, qb_ensure_vendor, qb_ensure_item_service and
\* ensure_qb_account, called by concurrent syncs for one name each
ProvKinds == CreateKinds \cup {"Account"}

\* 152: the income account qb_ensure_item_service ensures; the account a
\* sync ensures directly bears the same name
SalesAccount == <<"Sales">>

\* an ensure operation that goes on to create whatever the lookup returned
ProvAfterLookupAlwaysCreate(kind, existing) ==
    IF kind = "Item" THEN "acct_lookup" ELSE "post"

\* 131-132, 139-140, 146-147: "if existing: return existing"; otherwise
\* qb_ensure_item_service first ensures the income account (152), the others
\* enter _qb_safe_create
ProvAfterLookup(kind, existing) ==
    IF existing # NoRow THEN "returned"
    ELSE IF kind = "Item" THEN "acct_lookup" ELSE "post"

\* the ledger when the syncs start: without entities, or with the vendors
\* another client created under the names a call tries
ProvLedgers == { {}, {[kind |-> "Vendor", suffix |-> n] : n \in 0..(MaxAttempts - 1)} }

\* a sync calls an ensure operation
ProvCall(p) ==
    /\ provPc[p] = "idle"
    /\ \E kind \in ProvKinds :
          /\ provKind' = [provKind EXCEPT ![p] = kind]
          /\ provPc' = [provPc EXCEPT ![p] =
                            IF kind = "Account" THEN "acct_lookup" ELSE "lookup"]
    /\ UNCHANGED <<provAttempt, provName, provLooked, provPosts, provFault,
                   provResult, provEntities, qbAccounts>>
    /\ UNCHANGED nonProvVars

\* 130-132, 137-140, 145-147: qb_find_entity_by_name by the name ensured; a
\* failed query reads as no entity
ProvLookup(p) ==
    /\ provPc[p] = "lookup"
    /\ \E queryFails \in BOOLEAN :
          LET existing == QbFindEntityByName(provEntities, provKind[p], 0, queryFails)
          IN  /\ provLooked' = [provLooked EXCEPT ![p] = existing]
              /\ provPc' = [provPc EXCEPT ![p] = ProvAfterLookup(provKind[p], existing)]
              /\ provResult' = [provResult EXCEPT ![p] = existing]
    /\ UNCHANGED <<provKind, provAttempt, provName, provPosts, provFault,
                   provEntities, qbAccounts>>
    /\ UNCHANGED nonProvVars

\* 273-275: qb_get_account_by_name of ensure_qb_account, called by the sync or
\* at 152 by qb_ensure_item_service; a failed query raises
ProvAccountLookup(p) ==
    /\ provPc[p] = "acct_lookup"
    /\ \E queryOk \in BOOLEAN :
          IF ~queryOk
          THEN /\ provPc' = [provPc EXCEPT ![p] = "raised"]
               /\ provFault' = [provFault EXCEPT ![p] = @ \cup {"query"}]
               /\ UNCHANGED <<provLooked, provResult>>
          ELSE LET acc == QbGetAccountByName(qbAccounts, SalesAccount)
               IN  /\ provPc' = [provPc EXCEPT ![p] =
                                    IF acc = NoRow THEN "acct_create"
                                    ELSE IF provKind[p] = "Account" THEN "returned"
                                    ELSE "post"]
                   /\ IF provKind[p] = "Account"
                      THEN /\ provLooked' = [provLooked EXCEPT ![p] = acc]
                           /\ provResult' = [provResult EXCEPT ![p] = acc]
                      ELSE UNCHANGED <<provLooked, provResult>>
                   /\ UNCHANGED provFault
    /\ UNCHANGED <<provKind, provAttempt, provName, provPosts, provEntities,
                   qbAccounts>>
    /\ UNCHANGED nonProvVars

\* 276 and qb_create_account 260-267: one POST; every fault of it leaves the
\* ensure operation as an exception
ProvAccountCreate(p) ==
    /\ provPc[p] = "acct_create"
    /\ provPosts' = [provPosts EXCEPT ![p] = @ + 1]
    /\ IF DuplicateName(qbAccounts, SalesAccount)
       THEN /\ provPc' = [provPc EXCEPT ![p] = "raised"]
            /\ provFault' = [provFault EXCEPT ![p] = @ \cup {"6240"}]
            /\ UNCHANGED <<provResult, qbAccounts>>
       ELSE \E postOk \in BOOLEAN :
            IF postOk
            THEN /\ qbAccounts' = Append(qbAccounts, SalesAccount)
                 /\ provPc' = [provPc EXCEPT ![p] =
                                  IF provKind[p] = "Account" THEN "returned" ELSE "post"]
                 /\ provResult' = [provResult EXCEPT ![p] =
                                  IF provKind[p] = "Account"
                                  THEN [Id |-> Len(qbAccounts) + 1, Name |-> SalesAccount]
                                  ELSE @]
                 /\ UNCHANGED provFault
            ELSE /\ provPc' = [provPc EXCEPT ![p] = "raised"]
                 /\ provFault' = [provFault EXCEPT ![p] = @ \cup {"other"}]
                 /\ UNCHANGED <<provResult, qbAccounts>>
    /\ UNCHANGED <<provKind, provAttempt, provName, provLooked, provEntities>>
    /\ UNCHANGED nonProvVars

\* _qb_safe_create 98-111, 121: one create request with the current name
ProvPost(p) ==
    /\ provPc[p] = "post"
    /\ AttemptsLeft(provAttempt[p])
    /\ provPosts' = [provPosts EXCEPT ![p] = @ + 1]
    /\ IF NameTaken(provEntities, provKind[p], provName[p])
       THEN /\ provFault' = [provFault EXCEPT ![p] = @ \cup {"6240"}]
            /\ provPc' = [provPc EXCEPT ![p] = "find"]
            /\ UNCHANGED <<provResult, provEntities>>
       ELSE \E requestOk \in BOOLEAN :
              IF requestOk
              THEN /\ provEntities' = provEntities \cup
                                        {[kind |-> provKind[p], suffix |-> provName[p]]}
                   /\ provResult' = [provResult EXCEPT ![p] =
                          EntityJson([kind |-> provKind[p], suffix |-> provName[p]])]
                   /\ provPc' = [provPc EXCEPT ![p] = "returned"]
                   /\ UNCHANGED provFault
              ELSE /\ provFault' = [provFault EXCEPT ![p] = @ \cup {"other"}]
                   /\ provPc' = [provPc EXCEPT ![p] = "raised"]
                   /\ UNCHANGED <<provResult, provEntities>>
    /\ UNCHANGED <<provKind, provAttempt, provName, provLooked, qbAccounts>>
    /\ UNCHANGED nonProvVars

\* _qb_safe_create 111-120: after fault 6240 the re-fetch by the name just
\* tried; a failed query reads as no entity and the next attempt uses a
\* suffixed name
ProvFind(p) ==
    /\ provPc[p] = "find"
    /\ \E queryFails \in BOOLEAN :
          LET existing == QbFindEntityByName(provEntities, provKind[p], provName[p],
                                             queryFails)
          IN  IF existing # NoRow
              THEN /\ provResult' = [provResult EXCEPT ![p] = existing]
                   /\ provPc' = [provPc EXCEPT ![p] = "returned"]
                   /\ UNCHANGED <<provAttempt, provName, provFault>>
              ELSE /\ provName' = [provName EXCEPT ![p] = provAttempt[p] + 1]
                   /\ provAttempt' = [provAttempt EXCEPT ![p] = @ + 1]
                   /\ provPc' = [provPc EXCEPT ![p] =
                          IF AttemptsLeft(provAttempt[p] + 1) THEN "post" ELSE "final"]
                   /\ provFault' = [provFault EXCEPT ![p] =
                          IF queryFails THEN @ \cup {"refetch"} ELSE @]
                   /\ UNCHANGED provResult
    /\ UNCHANGED <<provKind, provLooked, provPosts, provEntities, qbAccounts>>
    /\ UNCHANGED nonProvVars

\* _qb_safe_create 122-126: the attempts are used up
ProvFinal(p) ==
    /\ provPc[p] = "final"
    /\ \E queryFails \in BOOLEAN :
          LET existing == QbFindEntityByName(provEntities, provKind[p], 0, queryFails)
          IN  provResult' = [provResult EXCEPT ![p] =
                                IF existing # NoRow THEN existing ELSE Placeholder]
    /\ provPc' = [provPc EXCEPT ![p] = "returned"]
    /\ UNCHANGED <<provKind, provAttempt, provName, provLooked, provPosts,
                   provFault, provEntities, qbAccounts>>
    /\ UNCHANGED nonProvVars

ProvInit ==
    /\ SyncIdle
    /\ BatchIdle
    /\ qbAccounts = <<>>
    /\ EnsureIdle
    /\ CreateIdle
    /\ StoreIdle
    /\ MapIdle
    /\ SeedIdle
    /\ NoteIdle
    /\ provPc = [p \in Syncs |-> "idle"]
    /\ provKind = [p \in Syncs |-> "Customer"]
    /\ provAttempt = [p \in Syncs |-> 0]
    /\ provName = [p \in Syncs |-> 0]
    /\ provLooked = [p \in Syncs |-> NoRow]
    /\ provPosts = [p \in Syncs |-> 0]
    /\ provFault = [p \in Syncs |-> {}]
    /\ provResult = [p \in Syncs |-> NoRow]
    /\ provEntities \in ProvLedgers
    /\ RaceIdle

ProvNext ==
    \E p \in Syncs :
        \/ ProvCall(p)
        \/ ProvLookup(p)
        \/ ProvAccountLookup(p)
        \/ ProvAccountCreate(p)
        \/ ProvPost(p)
        \/ ProvFind(p)
        \/ ProvFinal(p)

SpecProv == ProvInit /\ [][ProvNext]_vars

\* ---------------------------------------------- properties of SpecProv
\* C28: an ensure operation (ensure_qb_account, qb_ensure_customer,
\* qb_ensure_vendor, qb_ensure_item_service) sends no create request before
\* its lookup by name has returned, and when the lookup returned an entity it
\* returns that entity and sends no create request at all.
C28_LookupBeforeCreate ==
    \A p \in Syncs :
        /\ provPc[p] \in {"lookup", "idle"} => provPosts[p] = 0
        /\ (provPc[p] = "acct_lookup" /\ provKind[p] = "Account") => provPosts[p] = 0
        /\ provLooked[p] # NoRow =>
              /\ provPosts[p] = 0
              /\ provPc[p] = "returned"
              /\ provResult[p] = provLooked[p]

\* a sync ensuring the item created the income account and the item; the
\* lookup of a sync ensuring the account found that account and returned it
\* without a create request
C28_Witness ==
    \E p, q \in Syncs :
        /\ provKind[p] = "Item" /\ provPc[p] = "returned" /\ provPosts[p] = 2
        /\ provKind[q] = "Account" /\ provPc[q] = "returned" /\ provPosts[q] = 0
        /\ provLooked[q] = [Id |-> 1, Name |-> SalesAccount]
        /\ provResult[q] = provLooked[q]

\* two syncs ensured the same customer or vendor name, both lookups returned
\* nothing, both sent a create request, no request met a fault other than the
\* duplicate-name one, no entity of another kind bears a name of the list,
\* and both calls have ended
BothCreated(p, q) ==
    /\ p # q
    /\ provKind[p] = provKind[q]
    /\ provKind[p] \in {"Customer", "Vendor"}
    /\ provLooked[p] = NoRow /\ provLooked[q] = NoRow
    /\ provPosts[p] >= 1 /\ provPosts[q] >= 1
    /\ "other" \notin provFault[p] \cup provFault[q]
    /\ \A e \in provEntities : e.kind = provKind[p]
    /\ provPc[p] \in {"returned", "raised"}
    /\ provPc[q] \in {"returned", "raised"}

\* C29: when two concurrent syncs ensure the same customer (or vendor) name,
\* both find it absent and both attempt the creation, both calls return the
\* one entity the ledger holds under that name, and neither went on to a
\* suffixed name.
C29_OneEntityBothReturnIt ==
    \A p, q \in Syncs :
        BothCreated(p, q) =>
            /\ provPc[p] = "returned" /\ provPc[q] = "returned"
            /\ provResult[p] = EntityJson([kind |-> provKind[p], suffix |-> 0])
            /\ provResult[q] = provResult[p]
            /\ [kind |-> provKind[p], suffix |-> 0] \in provEntities
            /\ provName[p] = 0 /\ provName[q] = 0

\* ================== concurrent runs of sync_plaid_transactions (SpecRace)
\* Two or more runs for the same company iterate over the same window at the
\* same time; every request to the store and to the ledger is answered.
\* the window: the aggregator's amount per transaction (positive is outflow)
RaceAmount(id) == IF id % 2 = 1 THEN 0 - 120000 ELSE 45000

\* a run starts iterating over the window
RaceStart(p) ==
    /\ rcPc[p] = "idle"
    /\ rcPc' = [rcPc EXCEPT ![p] = "save"]
    /\ UNCHANGED <<rcIdx, rcInserted, rcRows, rcDocs>>
    /\ UNCHANGED nonRaceVars

\* 636-641: inserted = save_transaction(...), 1 for a new row and 0 for a row
\* that exists; the skip on "not inserted" is commented out, so the iteration
\* goes on to the ledger in both cases
RaceSave(p) ==
    /\ rcPc[p] = "save"
    /\ rcInserted' = [rcInserted EXCEPT ![p] = IF rcIdx[p] \in rcRows THEN 0 ELSE 1]
    /\ rcRows' = rcRows \cup {rcIdx[p]}
    /\ rcPc' = [rcPc EXCEPT ![p] = "check"]
    /\ UNCHANGED <<rcIdx, rcDocs>>
    /\ UNCHANGED nonRaceVars

\* the iteration is over: the next transaction, or the end of the window
RaceAdvance(p) ==
    /\ rcIdx' = [rcIdx EXCEPT ![p] = IF @ < MaxTxn THEN @ + 1 ELSE @]
    /\ rcPc' = [rcPc EXCEPT ![p] = IF rcIdx[p] < MaxTxn THEN "save" ELSE "done"]

\* 183-185, 208-210: the existence check of qb_create_invoice_from_txn /
\* qb_create_bill_from_txn; a document with the marker ends the iteration
RaceCheck(p) ==
    /\ rcPc[p] = "check"
    /\ LET kind == DocKindFor(StoredAmount(RaceAmount(rcIdx[p])))
       IN  IF \E d \in rcDocs : d.kind = kind /\ d.txn = rcIdx[p]
           THEN RaceAdvance(p)
           ELSE /\ rcPc' = [rcPc EXCEPT ![p] = "post"]
                /\ UNCHANGED rcIdx
    /\ UNCHANGED <<rcInserted, rcRows, rcDocs>>
    /\ UNCHANGED nonRaceVars

\* 186-204, 211-233: the customer / vendor and the item or account are
\* ensured, then the document with the marker is posted
RacePost(p) ==
    /\ rcPc[p] = "post"
    /\ rcDocs' = rcDocs \cup
                    {[kind |-> DocKindFor(StoredAmount(RaceAmount(rcIdx[p]))),
                      txn |-> rcIdx[p], by |-> p]}
    /\ RaceAdvance(p)
    /\ UNCHANGED <<rcInserted, rcRows>>
    /\ UNCHANGED nonRaceVars

RaceInit ==
    /\ SyncIdle
    /\ BatchIdle
    /\ qbAccounts = <<>>
    /\ EnsureIdle
    /\ CreateIdle
    /\ StoreIdle
    /\ MapIdle
    /\ SeedIdle
    /\ NoteIdle
    /\ ProvIdle
    /\ RaceIdle

RaceNext ==
    \E p \in Syncs :
        \/ RaceStart(p)
        \/ RaceSave(p)
        \/ RaceCheck(p)
        \/ RacePost(p)

SpecRace == RaceInit /\ [][RaceNext]_vars

\* ---------------------------------------------- properties of SpecRace
\* C30: concurrent runs of the same company over the same window post the
\* ledger document of each transaction at most once.
C30_PostedAtMostOnce ==
    \A txn \in TxnIds : Cardinality({d \in rcDocs : d.txn = txn}) <= 1

\* C31: no transaction has both a JournalEntry (posted by the batch path) and
\* an Invoice or a Bill (posted by sync_plaid_transactions) bearing its
\* marker, in whichever order the two paths handled it.
C31_NoSecondKindOfDocument ==
    \A d, e \in nDocs :
        (d.kind = "JournalEntry" /\ e.kind \in {"Invoice", "Bill"}) =>
            d.PrivateNote # e.PrivateNote

\* ============== the category account of the bill path and the batch path
\* str.split(",")[0]: the characters before the first comma
SplitFirst(str) ==
    LET commas == {i \in 1..Len(str) : str[i] = ","}
    IN  IF commas = {} THEN str
        ELSE SubSeq(str, 1, (CHOOSE i \in commas : \A j \in commas : i <= j) - 1)

\* qb_create_bill_from_txn 213-216: the account resolved for the first part
\* of the category, (txn.get("category") or "").split(",")[0]
BillCategoryAccount(category) ==
    MapPlaidCategoryToQb(SplitFirst(CategoryOrEmpty(category)), FALSE)

\* C37: for an outflow transaction the account the bill path resolves for its
\* category is the account the batch path resolves (813-815: the mapper
\* called with the whole category string), for every category handed in.
C37_SameCategoryAccount ==
    \A k \in 1..Len(mReturned) :
        ~mInputs[k].is_income =>
            mReturned[k] = BillCategoryAccount(mInputs[k].category)

====
